---- MODULE Spec2Model ----
(***************************************************************************)
(* Model of the asana-resource-exporter: the export pipeline               *)
(* (fetchData -> resources -> resourceDir -> storeResource), the client's  *)
(* Request, and the run orchestrator (run, runOnce, runWithInterval,       *)
(* finish, cleanup).                                                       *)
(*                                                                         *)
(* The sources hold two revisions of the pipeline:                         *)
(*   R1  cmd/app/export.go + internal/client.go, driven by the main.go of  *)
(*       unnamed/part_002 (export(ctx) fetches by itself);                 *)
(*   R2  unnamed/part_004 + unnamed/part_007 (export(ctx, data, dir) gets  *)
(*       the payload from its caller).                                     *)
(* The variable revision selects the one a behaviour runs.                 *)
(***************************************************************************)
EXTENDS Integers, Sequences, FiniteSets, TLC

(***************************************************************************)
(* Bounds of the model.                                                    *)
(***************************************************************************)
MaxTicks == 1    \* ticks the ticker delivers: goroutines 0..MaxTicks
MaxRetry == 2    \* 429 answers the server gives to one fetchData call
MaxRes == 2      \* resources in one payload

Procs == 0 .. MaxTicks

(***************************************************************************)
(* Program constants.                                                      *)
(***************************************************************************)
defaultRetryAfter == 5      \* seconds
errChCap == 1               \* make(chan error, 1)
Second == 1000              \* durations are in milliseconds

(***************************************************************************)
(* Errors are wrap chains: <<outer message, ..., root cause>>; nil is <<>>. *)
(***************************************************************************)
Nil == <<>>
Canceled == <<"context canceled">>
DeadlineExceeded == <<"context deadline exceeded">>
ErrInvalidEndpoint == <<"invalid endpoint">>
Wrap(msg, err) == <<msg>> \o err

\* errors.Is(err, context.Canceled): the chain ends in context.Canceled
IsCanceled(err) == err # Nil /\ err[Len(err)] = "context canceled"

(***************************************************************************)
(* Strings that the code parses are sequences of one-character strings.    *)
(***************************************************************************)
Digit == {"0", "1", "2", "3", "4", "5", "6", "7", "8", "9"}

DigitVal(c) ==
    CASE c = "0" -> 0 [] c = "1" -> 1 [] c = "2" -> 2 [] c = "3" -> 3
      [] c = "4" -> 4 [] c = "5" -> 5 [] c = "6" -> 6 [] c = "7" -> 7
      [] c = "8" -> 8 [] c = "9" -> 9

IsDigits(s) == Len(s) > 0 /\ \A k \in 1 .. Len(s) : s[k] \in Digit

RECURSIVE NatVal(_)
NatVal(s) == IF s = <<>> THEN 0
             ELSE 10 * NatVal(SubSeq(s, 1, Len(s) - 1)) + DigitVal(s[Len(s)])

HasSign(s) == Len(s) > 0 /\ s[1] \in {"+", "-"}
Unsigned(s) == IF HasSign(s) THEN Tail(s) ELSE s
SignOf(s) == IF Len(s) > 0 /\ s[1] = "-" THEN -1 ELSE 1

\* A Go int (and a time.Duration) has 64 bits: <<l1, l2, l3, l4>> are its
\* four 16-bit limbs, lowest first, in two's complement.
\* x * m + a modulo 2^64, for 0 <= m <= 1000 and 0 <= a <= 9
Mul64(x, m, a) ==
    LET t1 == x[1] * m + a
        t2 == x[2] * m + (t1 \div 65536)
        t3 == x[3] * m + (t2 \div 65536)
        t4 == x[4] * m + (t3 \div 65536)
    IN  <<t1 % 65536, t2 % 65536, t3 % 65536, t4 % 65536>>

Negative64(x) == x[4] >= 32768
Neg64(x) == Mul64(<<65535 - x[1], 65535 - x[2], 65535 - x[3], 65535 - x[4]>>, 1, 1)

\* x \div d for x >= 0 and 0 < d <= 1000
Div64(x, d) ==
    LET c4 == x[4]
        c3 == (c4 % d) * 65536 + x[3]
        c2 == (c3 % d) * 65536 + x[2]
        c1 == (c2 % d) * 65536 + x[1]
    IN  <<c1 \div d, c2 \div d, c3 \div d, c4 \div d>>

\* the decimal digits s as a 64-bit value
RECURSIVE Dec64(_)
Dec64(s) == IF s = <<>> THEN <<0, 0, 0, 0>>
            ELSE Mul64(Dec64(SubSeq(s, 1, Len(s) - 1)), 10, DigitVal(s[Len(s)]))

RECURSIVE DropZeros(_)
DropZeros(s) == IF s # <<>> /\ s[1] = "0" THEN DropZeros(Tail(s)) ELSE s

\* a <= b for two digit strings of the same length
RECURSIVE DigitsLE(_, _)
DigitsLE(a, b) ==
    IF a = <<>> THEN TRUE
    ELSE IF a[1] # b[1] THEN DigitVal(a[1]) < DigitVal(b[1])
    ELSE DigitsLE(Tail(a), Tail(b))

\* math.MaxInt64 = 9223372036854775807, and the digits of math.MinInt64
MaxInt64Digits == <<"9", "2", "2", "3", "3", "7", "2", "0", "3", "6", "8", "5",
                    "4", "7", "7", "5", "8", "0", "7">>
MinInt64Digits == [MaxInt64Digits EXCEPT ![19] = "8"]

\* strconv.Atoi: an optional sign and decimal digits, of a value that an
\* int holds (otherwise: value out of range)
AtoiOk(s) ==
    /\ IsDigits(Unsigned(s))
    /\ LET d == DropZeros(Unsigned(s))
       IN  \/ Len(d) < Len(MaxInt64Digits)
           \/ /\ Len(d) = Len(MaxInt64Digits)
              /\ DigitsLE(d, IF SignOf(s) = -1 THEN MinInt64Digits
                                               ELSE MaxInt64Digits)
Atoi(s) == IF SignOf(s) = -1 THEN Neg64(Dec64(Unsigned(s)))
           ELSE Dec64(Unsigned(s))

\* time.Duration(seconds) * time.Second: int64 nanoseconds, modulo 2^64
Seconds64(x) == Mul64(Mul64(Mul64(x, 1000, 0), 1000, 0), 1000, 0)

\* a time.Duration in the model's milliseconds (rounded towards zero); a
\* wait of more than 2^31 - 1 ms is held as 2^31 - 1 ms
DurationMs(x) ==
    LET mag == IF Negative64(x) THEN Neg64(x) ELSE x
        ms == Div64(Div64(mag, 1000), 1000)
        n == IF ms[4] = 0 /\ ms[3] = 0 /\ ms[2] < 32768
             THEN ms[2] * 65536 + ms[1] ELSE 2147483647
    IN  IF Negative64(x) THEN 0 - n ELSE n

\* time.ParseDuration, for one "<digits><unit>" group and the literal "0":
\* the value in milliseconds
UnitMs(u) == CASE u = <<"s">> -> 1000 [] u = <<"m">> -> 60000
               [] u = <<"h">> -> 3600000 [] u = <<"m", "s">> -> 1
               [] OTHER -> 0
Units == {<<"s">>, <<"m">>, <<"h">>, <<"m", "s">>}

\* the length of the leading run of digits of s
RECURSIVE DigitRun(_)
DigitRun(s) == IF s = <<>> \/ s[1] \notin Digit THEN 0 ELSE 1 + DigitRun(Tail(s))

ParseDurationOk(s) ==
    LET u == Unsigned(s)
        n == DigitRun(u)
    IN  \/ u = <<"0">>
        \/ /\ n > 0
           /\ SubSeq(u, n + 1, Len(u)) \in Units

ParseDuration(s) ==
    LET u == Unsigned(s)
        n == DigitRun(u)
    IN  IF u = <<"0">> THEN 0
        ELSE SignOf(s) * NatVal(SubSeq(u, 1, n)) * UnitMs(SubSeq(u, n + 1, Len(u)))

\* http.ParseTime then time.Until: an HTTP-date is <<"Date", d>>, the date
\* that lies d seconds after the moment of the call (d < 0: in the past)
ParseTimeOk(s) == Len(s) = 2 /\ s[1] = "Date"
Until(s) == s[2] * Second

\* retryAfter: the wait, in milliseconds, for a Retry-After value
retryAfter(s) ==
    IF ParseDurationOk(s) THEN ParseDuration(s)
    ELSE IF AtoiOk(s) THEN DurationMs(Seconds64(Atoi(s)))
    ELSE IF ParseTimeOk(s) /\ Until(s) > 0 THEN Until(s)
    ELSE defaultRetryAfter * Second


(***************************************************************************)
(* Payloads and resources.  A payload is what json.Unmarshal sees: valid   *)
(* says whether the bytes are JSON at all, top is the kind of the JSON     *)
(* value, dataKind the kind of its member "data" ("absent": there is       *)
(* none), and data the elements of that array: JSON objects, which are     *)
(* functions from member names to values.                                  *)
(***************************************************************************)
Names == <<"Test1", "Test2", "Test3", "Test4">>

\* a Resource value: its fields, under the names of their json tags
Resource(k) == [gid |-> k, name |-> Names[k], resource_type |-> "project"]

ResList(n) == [k \in 1 .. n |-> Resource(k)]

\* the JSON object of a resource, as the API sends it: with further members
Entry(k) == Resource(k) @@ ("workspace" :> "w")

Payload(entries) == [valid |-> TRUE, top |-> "object", dataKind |-> "array",
                     data |-> entries]

\* no bytes (nil), or bytes that are not JSON
NoData == [valid |-> FALSE, top |-> "none", dataKind |-> "absent", data |-> <<>>]

Payloads == {NoData} \cup {Payload([k \in 1 .. n |-> Entry(k)]) : n \in 0 .. MaxRes}

\* the payloads resources is called with by itself: those of
\* TestAppResources (part_000:115-163), and JSON of other shapes
DecodeInputs ==
    Payloads \cup
    { [NoData EXCEPT !.valid = TRUE, !.top = "null"],
      [NoData EXCEPT !.valid = TRUE, !.top = "array"],
      [NoData EXCEPT !.valid = TRUE, !.top = "object"],
      [NoData EXCEPT !.valid = TRUE, !.top = "object", !.dataKind = "null"],
      [NoData EXCEPT !.valid = TRUE, !.top = "object", !.dataKind = "string"],
      Payload(<<Entry(2), Entry(1)>>),
      Payload(<<Resource(1), [gid |-> 3, resource_type |-> "task"], Entry(1)>>) }

\* the member of a JSON object that goes into a field: a missing member
\* leaves the field at its zero value
Field(e, tag) == IF tag \in DOMAIN e THEN e[tag] ELSE ""

\* json.Unmarshal of one element into a Resource (tags of part_004:21-25)
Decode(e) == [gid |-> Field(e, "gid"), name |-> Field(e, "name"),
              resource_type |-> Field(e, "resource_type")]

\* json.Encoder.Encode of a Resource: an object of its three tagged fields
Encode(rc) == [tag \in {"gid", "name", "resource_type"} |-> rc[tag]]

\* a resources that loses the last element
resourcesShort(d) ==
    IF d.valid /\ d.top = "object" /\ d.dataKind = "array"
    THEN [out |-> [k \in 1 .. Len(d.data) - 1 |-> Decode(d.data[k])], err |-> Nil]
    ELSE [out |-> <<>>, err |-> Wrap("unmarshal data", <<"syntax error">>)]

\* resources: json.Unmarshal into struct{ Data []Resource `json:"data"` }.
\* JSON null leaves the struct as it is; a member "data" that is missing or
\* null leaves Data nil; a value of another kind is an UnmarshalTypeError.
resources(d) ==
    IF ~d.valid
    THEN [out |-> <<>>, err |-> Wrap("unmarshal data", <<"syntax error">>)]
    ELSE IF d.top = "null"
    THEN [out |-> <<>>, err |-> Nil]
    ELSE IF d.top # "object"
    THEN [out |-> <<>>, err |-> Wrap("unmarshal data", <<"cannot unmarshal">>)]
    ELSE IF d.dataKind \in {"absent", "null"}
    THEN [out |-> <<>>, err |-> Nil]
    ELSE IF d.dataKind # "array"
    THEN [out |-> <<>>, err |-> Wrap("unmarshal data", <<"cannot unmarshal">>)]
    ELSE [out |-> [k \in 1 .. Len(d.data) |-> Decode(d.data[k])], err |-> Nil]

(***************************************************************************)
(* Endpoints: a URL as url.Parse sees it.                                  *)
(***************************************************************************)
GoodURL == [blank |-> FALSE, parses |-> TRUE, scheme |-> "https",
            host |-> <<"app.asana.com">>, fragment |-> "", user |-> FALSE,
            length |-> 40]

Endpoints == {GoodURL, [GoodURL EXCEPT !.host = <<"localhost">>]}

\* u.Host is a sequence of pieces, so that strings.Contains(host, name) can
\* be computed: the names validEndpoint looks for are pieces of their own
LoopbackHosts == {"localhost", "127.0.0.1", "::1"}
Contains(host, name) == \E k \in 1 .. Len(host) : host[k] = name
MaxURLLen == 2048

\* the URLs Request is called with, as TestValidEndpoint and
\* TestClient_RequestInvalidEndpoint choose them
URLs ==
    { GoodURL,
      [GoodURL EXCEPT !.scheme = "http"],
      [GoodURL EXCEPT !.length = MaxURLLen],
      [GoodURL EXCEPT !.length = MaxURLLen + 1],
      [GoodURL EXCEPT !.blank = TRUE, !.scheme = "", !.host = <<>>, !.length = 3],
      [GoodURL EXCEPT !.parses = FALSE, !.scheme = "", !.host = <<>>],
      [GoodURL EXCEPT !.scheme = "", !.host = <<>>],
      [GoodURL EXCEPT !.scheme = "mailto", !.host = <<>>],
      [GoodURL EXCEPT !.scheme = "ftp"],
      [GoodURL EXCEPT !.fragment = "fragment"],
      [GoodURL EXCEPT !.user = TRUE],
      [GoodURL EXCEPT !.host = <<"localhost">>],
      [GoodURL EXCEPT !.host = <<"127.0.0.1">>, !.scheme = "http"],
      [GoodURL EXCEPT !.host = <<"[", "::1", "]">>],
      [GoodURL EXCEPT !.host = <<"not", "localhost", ".example.com">>],
      [GoodURL EXCEPT !.host = <<"[2001:db8", "::1", "]">>] }

(***************************************************************************)
(* File modes: the octal digits for owner, group and others.               *)
(***************************************************************************)
\* the permission bits of one octal digit
ModeBits(d) == {b \in {1, 2, 4} : (d \div b) % 2 = 1}

\* the octal digit of a set of permission bits
BitsDigit(S) == (IF 4 \in S THEN 4 ELSE 0) + (IF 2 \in S THEN 2 ELSE 0)
                + (IF 1 \in S THEN 1 ELSE 0)

\* open(2) with O_CREAT: the mode of a new file is mode & ~umask
AndNot(m, mask) == [k \in 1 .. 3 |-> BitsDigit(ModeBits(m[k]) \ ModeBits(mask[k]))]

\* the masks a process runs with: the usual default 022, and 077
DefaultUmask == <<0, 2, 2>>
Umasks == {DefaultUmask, <<0, 7, 7>>}

\* the mode of a file that was there before the program ran
ForeignMode == <<6, 4, 4>>

VARIABLES
    revision,    \* "R1" or "R2": the revision of export.go and client.go
    mode,        \* "call": export or fetchData called directly, as the tests
                 \* do; "once", "interval": run() of main.go
    endpoint,    \* the URL fetchData builds from the configuration
    umask,       \* the file mode creation mask of the process
    interval,    \* cfg.interval: the string of the -interval flag
    cancelled,   \* the context of run (or of the caller) is done
    fsDir,       \* kind of the two directories: [rc, rcs] -> absent|dir|file
    files,       \* files in them: set of [dir, name, ts, gid, by, full, content,
                 \* perm]
    g,           \* per goroutine: the export / fetchData call it runs
    mainPc,      \* where the main goroutine is; "crashed": the process
                 \* died of a panic; "returned": run returned what finish
                 \* returned; "rejected": run returned parseInterval's error
    wg,          \* a.wg's counter
    errCh,       \* the buffered error channel of runWithInterval
    errs,        \* the coordinator's error list
    tickPending, \* ticker.C holds a tick
    ticks,       \* ticks delivered so far
    launched,    \* export goroutines started so far
    waiter,      \* finish's goroutine (wg.Wait; close(done)) is running
    doneClosed,  \* a.done is closed
    cleanupVia,  \* how cleanup left its select: "none", "done", "timeout"
    runResult,   \* what run returned
    st,          \* mode "storeResource": a call of R2's storeResource by itself
    lim,         \* modes "limiter", "request": the rate.Limiter of one Client
    rq,          \* mode "request": one call of Client.Request by itself
    raCall,      \* mode "retryAfter": one call of retryAfter by itself
    piCall       \* mode "parseInterval": one call of parseInterval by itself

vars == <<revision, mode, endpoint, umask, interval, cancelled, fsDir, files, g,
          mainPc, wg, errCh, errs, tickPending, ticks, launched, waiter,
          doneClosed, cleanupVia, runResult, st, lim, rq, raCall, piCall>>

config == <<revision, mode, endpoint, umask, interval>>
mainVars == <<mainPc, wg, errCh, errs, tickPending, ticks, launched, waiter,
              doneClosed, cleanupVia, runResult>>
fsVars == <<fsDir, files>>
unitVars == <<st, lim, rq, raCall, piCall>>

\* validEndpoint of client.go; R2 (part_007) no longer rejects loopback hosts
validEndpoint(u) ==
    /\ ~u.blank
    /\ u.parses
    /\ u.scheme # "" /\ u.host # <<>>
    /\ u.scheme \in {"http", "https"}
    /\ u.fragment = ""
    /\ ~u.user
    /\ (revision = "R1" => \A name \in LoopbackHosts : ~Contains(u.host, name))
    /\ u.length <= MaxURLLen

(***************************************************************************)
(* A goroutine's frame.  fn is the function called from outside ("export"  *)
(* or "fetchData"); pc is the suspension point it is at; status and hasRA  *)
(* are resp.StatusCode and whether resp.Header.Get("Retry-After") is not   *)
(* empty, of the last response; open is the number of response bodies that *)
(* the running fetchData has received and not closed.                      *)
(***************************************************************************)
Idle == [pc |-> "idle", fn |-> "export", data |-> NoData, rcs |-> <<>>,
         i |-> 1, wait |-> 0, timer |-> 0, elapsed |-> 0, sent |-> NoData,
         gets |-> 0, retries |-> 0, writes |-> 0, failed |-> 0, mkdirs |-> 0,
         startCancelled |-> FALSE, retAt |-> "none", out |-> NoData,
         result |-> Nil, status |-> 0, hasRA |-> FALSE, open |-> 0]

Start(fn, d) == [Idle EXCEPT !.pc = fn, !.fn = fn, !.data = d]

(***************************************************************************)
(* Paths.  A path is what filepath sees: whether it is rooted, and its     *)
(* elements, each a string (a sequence of characters).                     *)
(***************************************************************************)
Dot == <<".">>
DotDot == <<".", ".">>
Path(abs, comps) == [abs |-> abs, comps |-> comps]

\* the elements of filepath.Clean: empty and "." elements go, ".." removes
\* the element before it, stays at the front of a relative path and is
\* dropped at the root
RECURSIVE CleanComps(_, _, _)
CleanComps(abs, rest, acc) ==
    IF rest = <<>> THEN acc
    ELSE LET c == Head(rest)
             next == IF c = <<>> \/ c = Dot THEN acc
                     ELSE IF c # DotDot THEN Append(acc, c)
                     ELSE IF acc # <<>> /\ acc[Len(acc)] # DotDot
                          THEN SubSeq(acc, 1, Len(acc) - 1)
                     ELSE IF abs THEN acc
                     ELSE Append(acc, c)
         IN  CleanComps(abs, Tail(rest), next)

\* filepath.Clean
Clean(pa) == Path(pa.abs, CleanComps(pa.abs, pa.comps, <<>>))

\* the working directory of the process
Cwd == <<<<"w">>>>

\* filepath.Abs: a relative path is joined to the working directory
Abs(pa) == IF pa.abs THEN Clean(pa)
           ELSE Path(TRUE, CleanComps(TRUE, Cwd \o pa.comps, <<>>))

\* the string of an absolute, clean path: "/" before every element
RECURSIVE Flatten(_)
Flatten(comps) ==
    IF comps = <<>> THEN <<>>
    ELSE <<"/">> \o Head(comps) \o Flatten(Tail(comps))

PathString(pa) == IF pa.comps = <<>> THEN <<"/">> ELSE Flatten(pa.comps)

\* strings.HasPrefix
HasPrefix(str, prefix) ==
    Len(str) >= Len(prefix) /\ SubSeq(str, 1, Len(prefix)) = prefix

(***************************************************************************)
(* R2's storeResource called by itself (part_004:168-208).                 *)
(***************************************************************************)
MaxCalls == 2    \* calls of storeResource with the same arguments

DataName == <<"d", "a", "t", "a">>
SiblingName == DataName \o <<"-", "o", "l", "d">>
ProjectName == <<"p">>
FileName == <<"a", ".", "j", "s", "o", "n">>

\* the values of cfg.dataDir: "data", "/w/data", ""
DataDirs == {Path(FALSE, <<DataName>>), Path(TRUE, Cwd \o <<DataName>>),
             Path(FALSE, <<>>)}

\* the filenames storeResource is given
Filenames ==
    { Path(FALSE, <<DataName, ProjectName, FileName>>),
      Path(FALSE, <<DataName, Dot, ProjectName, <<>>, FileName>>),
      Path(TRUE, Cwd \o <<DataName, ProjectName, FileName>>),
      Path(FALSE, <<DataName, DotDot, <<"e">>, FileName>>),
      Path(FALSE, <<DataName, ProjectName, DotDot, DotDot, DotDot, FileName>>),
      Path(TRUE, <<<<"e">>, FileName>>),
      Path(FALSE, <<SiblingName, FileName>>),
      Path(FALSE, <<DataName, ProjectName, DotDot, DotDot, SiblingName, FileName>>),
      Path(FALSE, <<DataName>>) }

\* the elements of a path string: what lies between its separators
RECURSIVE SplitComps(_, _)
SplitComps(str, cur) ==
    IF str = <<>> THEN <<cur>>
    ELSE IF Head(str) = "/" THEN <<cur>> \o SplitComps(Tail(str), <<>>)
    ELSE SplitComps(Tail(str), Append(cur, Head(str)))

\* time.Now().Format("20060102150405"): digits
Stamp == <<"0">>

\* the filename export builds for a resource of the name rcName
\* (part_004:41, 51): dir + "/" + resource + "/" + resource + "_" + Name +
\* "_" + stamp + ".json"; with an empty dir the string starts with "/"
ExportFilename(dir, rcName) ==
    Path(dir.abs \/ dir.comps = <<>>,
         dir.comps \o <<ProjectName>>
         \o SplitComps(ProjectName \o <<"_">> \o rcName \o <<"_">> \o Stamp
                        \o <<".", "j", "s", "o", "n">>, <<>>))

\* values of the field Name of a resource, as the server sends them: "a",
\* "a/b", "../x", "/../x", "/../../x", "/../../../data-old/x",
\* "/../../../../e/x"
ResourceNames ==
    { <<"a">>, <<"a", "/", "b">>, <<".", ".", "/", "x">>,
      <<"/", ".", ".", "/", "x">>,
      <<"/", ".", ".", "/", ".", ".", "/", "x">>,
      <<"/", ".", ".", "/", ".", ".", "/", ".", ".", "/">> \o SiblingName \o <<"/", "x">>,
      <<"/", ".", ".", "/", ".", ".", "/", ".", ".", "/", ".", ".", "/", "e", "/", "x">> }

\* the directories that exist when storeResource is called
StoreDirs == {PathString(Path(TRUE, c)) :
                c \in {<<>>, Cwd, Cwd \o <<DataName>>,
                       Cwd \o <<DataName, ProjectName>>,
                       Cwd \o <<SiblingName>>, <<<<"e">>>>}}

ErrTraversal == <<"invalid file path: attempts to write outside data directory">>

\* os.OpenFile(O_WRONLY|O_CREATE|O_TRUNC) of the file at the absolute path fa
OpenFileOk(fa) ==
    /\ fa.comps # <<>>
    /\ PathString(fa) \notin StoreDirs
    /\ PathString(Path(TRUE, SubSeq(fa.comps, 1, Len(fa.comps) - 1))) \in StoreDirs

\* storeResource(rc, filename) with cfg.dataDir = dataDir: the error it
\* returns and the files it opened
storeResource(dataDir, filename) ==
    LET cleanPath == Clean(filename)
        dataDirAbs == Abs(dataDir)
        fileAbs == Abs(cleanPath)
    IN  IF ~HasPrefix(PathString(fileAbs), PathString(dataDirAbs))
        THEN [err |-> ErrTraversal, opened |-> {}]
        ELSE IF ~OpenFileOk(fileAbs)
        THEN [err |-> <<"open">>, opened |-> {}]
        ELSE [err |-> Nil, opened |-> {PathString(fileAbs)}]

\* the mode the file is created with: os.Create is OpenFile(..., 0666)
\* (export.go:165); part_004:189 passes 0600
CreateMode == IF revision = "R1" THEN <<6, 6, 6>> ELSE <<6, 0, 0>>

\* the mode of a file after os.OpenFile(O_WRONLY|O_CREATE|O_TRUNC, perm):
\* a file that is there is truncated and keeps its mode (was: its mode,
\* <<>> for none); a new one gets perm & ~umask
OpenFileMode(was) == IF was # <<>> THEN was ELSE AndNot(CreateMode, umask)

\* perm: the mode of the file at the path, <<>> while there is none
\* byExport: the filename is one that export built from dataDir
NoStore == [dataDir |-> Path(FALSE, <<>>), filename |-> Path(FALSE, <<>>),
            calls |-> 0, err |-> Nil, created |-> {}, perm |-> <<>>,
            byExport |-> FALSE]

(***************************************************************************)
(* The rate limiter of a Client (golang.org/x/time/rate), by itself.       *)
(***************************************************************************)
TimeStep == 10   \* seconds between two looks at the limiter's clock
Window == 60     \* rate.Limit(r/60): the seconds of a minute

\* the values of cfg.rate: requests per minute
Rates == {1, Window, Window + 1}

\* NewClient(t, r): rate.NewLimiter(rate.Limit(r/60), r).  r is an int, so
\* r/60 is Go's integer division, converted to a Limit afterwards.  A new
\* limiter holds burst tokens.
NewLimiter(r) == [built |-> TRUE, r |-> r, burst |-> r, limit |-> r \div Window,
                  tokens |-> r, clock |-> 0, sent |-> 0]

\* a limiter that is not in use
NoLimiter == [built |-> FALSE, r |-> 0, burst |-> 0, limit |-> 0, tokens |-> 0,
              clock |-> 0, sent |-> 0]

(***************************************************************************)
(* One call of Client.Request, by itself (client.go:46-81, part_007:54-86).*)
(***************************************************************************)
RequestTimeout == 3   \* context.WithTimeout(context.Background(), 3*time.Second)
MaxFlight == 3        \* seconds a GET is watched in flight

\* ctx.Err() of a context that is done
CtxErr(c) == IF c = "canceled" THEN Canceled ELSE DeadlineExceeded

\* limiter.Wait's own error: the token would come after the deadline, or
\* never (a limit of 0 and no burst left)
ErrWouldExceed == <<"rate: Wait(n=1) would exceed context deadline">>

\* limiter.Wait's error when the burst is below 1: with a limit of 0 every
\* admitted call takes one from the burst, so this is what Wait returns
\* once the burst is used up
ErrExceedsBurst == <<"rate: Wait(n=1) exceeds limiter's burst 0">>

\* pc: "call", "waiting" (limiter.Wait's select), "Do" (Wait returned nil),
\* "flight" (the GET is sent), "ret".  ctx: "live", "canceled", "deadline".
\* short: ctx carries a deadline that comes before the next token.
\* verdict: what validEndpoint said.  due: the timer of the reservation
\* fired.  doneInWait: ctx became done while the call waited for its token.
NoRequest == [pc |-> "none", url |-> GoodURL, ctx |-> "live", short |-> FALSE,
              verdict |-> "none", due |-> FALSE, doneInWait |-> FALSE,
              elapsed |-> 0, gets |-> 0, resp |-> FALSE, err |-> Nil]

(***************************************************************************)
(* One call of retryAfter, by itself (part_002:140-157).                   *)
(***************************************************************************)
\* the strings retryAfter is called with: those of TestAppRetryAfter
\* (part_001:380-429), signed and zero counts, counts at the edge of what
\* an int and a time.Duration hold, and HTTP-dates before and after now
RetryAfterInputs ==
    { <<>>, <<"0">>, <<"1">>, <<"6", "0">>, <<"0", "0", "7">>, <<"+", "2">>,
      <<"-", "1">>, <<"3", "0", "s">>, <<"1", "m">>, <<"-", "2", "s">>,
      <<"i", "n", "v", "a", "l", "i", "d">>, <<"3", "0", "x">>,
      <<"Date", 120>>, <<"Date", -120>>, <<"Date", 0>>,
      <<"1", "8", "4", "4", "6", "7", "4", "4", "0", "7", "3">>,
      <<"1", "8", "4", "4", "6", "7", "4", "4", "0", "7", "4">>,
      <<"9", "9", "9", "9", "9", "9", "9", "9", "9", "9",
        "9", "9", "9", "9", "9", "9", "9", "9", "9", "9">> }

NoRetryAfter == [s |-> <<>>, called |-> FALSE, wait |-> 0]

(***************************************************************************)
(* parseInterval (part_002:67-82).                                         *)
(***************************************************************************)
ErrInterval == <<"interval must be at least 1 second">>

\* a parseInterval that takes every duration
parseIntervalAny(s) ==
    IF s = <<>> THEN [d |-> 0, err |-> Nil]
    ELSE IF ~ParseDurationOk(s)
    THEN [d |-> 0, err |-> Wrap("invalid interval format", <<"time: invalid duration">>)]
    ELSE [d |-> ParseDuration(s), err |-> Nil]

\* parseInterval with cfg.interval = s: the duration, in milliseconds, and
\* the error
parseInterval(s) ==
    IF s = <<>> THEN [d |-> 0, err |-> Nil]
    ELSE IF ~ParseDurationOk(s)
    THEN [d |-> 0, err |-> Wrap("invalid interval format", <<"time: invalid duration">>)]
    ELSE IF ParseDuration(s) < Second
    THEN [d |-> 0, err |-> ErrInterval]
    ELSE [d |-> ParseDuration(s), err |-> Nil]

\* the values of cfg.interval: those of TestAppParseInterval
\* (part_001:198-261), durations around one second, zero and signed ones,
\* and a number without a unit
IntervalInputs ==
    { <<>>, <<"5", "s">>, <<"2", "m">>, <<"i", "n", "v", "a", "l", "i", "d">>,
      <<"5", "0", "0", "m", "s">>, <<"1", "s">>, <<"9", "9", "9", "m", "s">>,
      <<"1", "0", "0", "0", "m", "s">>, <<"1", "0", "0", "1", "m", "s">>,
      <<"0">>, <<"0", "s">>, <<"-", "5", "s">>, <<"+", "1", "s">>, <<"1", "h">>,
      <<"6", "0">>, <<"s">> }

\* the values of cfg.interval that run is started with
RunIntervals ==
    { <<>>, <<"1", "s">>, <<"5", "0", "0", "m", "s">>, <<"0">>, <<"-", "5", "s">>,
      <<"6", "0">> }

NoParseInterval == [called |-> FALSE, d |-> 0, err |-> Nil]

InitMain ==
    /\ wg = 0
    /\ errCh = <<>>
    /\ errs = <<>>
    /\ tickPending = FALSE
    /\ ticks = 0
    /\ launched = 0
    /\ waiter = FALSE
    /\ doneClosed = FALSE
    /\ cleanupVia = "none"
    /\ runResult = [count |-> 0, err |-> Nil]
    /\ files = {}

\* export or fetchData called directly with a context that may be done
InitCall ==
    /\ mode = "call"
    /\ revision \in {"R1", "R2"}
    /\ endpoint \in Endpoints
    /\ umask \in Umasks
    /\ interval = <<>>
    /\ cancelled \in BOOLEAN
    /\ fsDir \in [{"rc", "rcs"} -> {"absent", "dir", "file"}]
    /\ fsDir["rcs"] # "file"
    /\ (revision = "R2" => fsDir["rcs"] = "absent")
    /\ \E fn \in {"export", "fetchData"}, d \in Payloads :
          /\ (revision = "R1" \/ fn = "fetchData") => d = NoData
          /\ g = [p \in Procs |-> IF p = 0 THEN Start(fn, d) ELSE Idle]
    /\ mainPc = "caller"
    /\ InitMain
    /\ st = NoStore
    /\ lim = NoLimiter
    /\ rq = NoRequest
    /\ raCall = NoRetryAfter
    /\ piCall = NoParseInterval

\* run() of main.go (part_002), which calls R1's export(ctx).  With an
\* interval, the directory of the files is looked at only where resourceDir
\* lets export reach its loop.
InitRun ==
    /\ interval \in RunIntervals
    /\ mode = IF interval = <<>> THEN "once" ELSE "interval"
    /\ revision = "R1"
    /\ endpoint \in Endpoints
    /\ umask = DefaultUmask
    /\ cancelled = FALSE
    /\ fsDir \in [{"rc", "rcs"} -> {"absent", "dir", "file"}]
    /\ fsDir["rcs"] # "file"
    /\ (mode = "interval" /\ fsDir["rc"] # "dir") => fsDir["rcs"] = "absent"
    /\ g = [p \in Procs |-> Idle]
    /\ mainPc = "run"
    /\ InitMain
    /\ st = NoStore
    /\ lim = NoLimiter
    /\ rq = NoRequest
    /\ raCall = NoRetryAfter
    /\ piCall = NoParseInterval

\* no pipeline runs: a function of the program is called by itself
InitNoPipeline ==
    /\ revision = "R2"
    /\ endpoint = GoodURL
    /\ cancelled = FALSE
    /\ fsDir = [d \in {"rc", "rcs"} |-> "absent"]
    /\ g = [p \in Procs |-> Idle]
    /\ mainPc = "caller"
    /\ InitMain

\* storeResource called with a filename, as TestAppStoreResource does, or
\* with the filename export builds for a resource
InitStore ==
    /\ mode = "storeResource"
    /\ InitNoPipeline
    /\ umask \in Umasks
    /\ interval = <<>>
    /\ \E d \in DataDirs, m \in {<<>>, ForeignMode} :
          \/ \E f \in Filenames :
                /\ m # <<>> => OpenFileOk(Abs(Clean(f)))
                /\ st = [NoStore EXCEPT !.dataDir = d, !.filename = f, !.perm = m]
          \/ \E n \in ResourceNames :
                LET f == ExportFilename(d, n)
                IN  /\ m # <<>> => OpenFileOk(Abs(Clean(f)))
                    /\ st = [NoStore EXCEPT !.dataDir = d, !.filename = f,
                                            !.perm = m, !.byExport = TRUE]
    /\ lim = NoLimiter
    /\ rq = NoRequest
    /\ raCall = NoRetryAfter
    /\ piCall = NoParseInterval

\* NewClient is about to be called with the rate r, as TestNewClient does
InitLimiter ==
    /\ mode = "limiter"
    /\ InitNoPipeline
    /\ umask = DefaultUmask
    /\ interval = <<>>
    /\ st = NoStore
    /\ \E r \in Rates : lim = [NoLimiter EXCEPT !.r = r]
    /\ rq = NoRequest
    /\ raCall = NoRetryAfter
    /\ piCall = NoParseInterval

\* Request is about to be called on a Client whose limiter has one token
\* left or none, with a context that may be done, as the tests of
\* part_006:334-420 do
InitRequest ==
    /\ mode = "request"
    /\ revision \in {"R1", "R2"}
    /\ endpoint = GoodURL
    /\ umask = DefaultUmask
    /\ interval = <<>>
    /\ cancelled = FALSE
    /\ fsDir = [d \in {"rc", "rcs"} |-> "absent"]
    /\ g = [p \in Procs |-> Idle]
    /\ mainPc = "caller"
    /\ InitMain
    /\ st = NoStore
    /\ \E r \in {1, Window}, t \in {0, 1} :
          lim = IF r \div Window = 0
                THEN [NewLimiter(r) EXCEPT !.burst = t, !.tokens = t, !.sent = r - t]
                ELSE [NewLimiter(r) EXCEPT !.tokens = t, !.sent = r - t]
    /\ \E u \in URLs, c \in {"live", "canceled"}, sh \in BOOLEAN :
          rq = [NoRequest EXCEPT !.pc = "call", !.url = u, !.ctx = c, !.short = sh]
    /\ raCall = NoRetryAfter
    /\ piCall = NoParseInterval

\* retryAfter is about to be called with a string, as TestAppRetryAfter does
InitRetryAfter ==
    /\ mode = "retryAfter"
    /\ InitNoPipeline
    /\ umask = DefaultUmask
    /\ interval = <<>>
    /\ st = NoStore
    /\ lim = NoLimiter
    /\ rq = NoRequest
    /\ \E s \in RetryAfterInputs : raCall = [NoRetryAfter EXCEPT !.s = s]
    /\ piCall = NoParseInterval

\* resources is about to be called with a payload, as TestAppResources does
InitResources ==
    /\ mode = "resources"
    /\ revision = "R2"
    /\ endpoint = GoodURL
    /\ umask = DefaultUmask
    /\ interval = <<>>
    /\ cancelled = FALSE
    /\ fsDir = [d \in {"rc", "rcs"} |-> "absent"]
    /\ \E d \in DecodeInputs :
          g = [p \in Procs |-> IF p = 0 THEN Start("resources", d) ELSE Idle]
    /\ mainPc = "caller"
    /\ InitMain
    /\ st = NoStore
    /\ lim = NoLimiter
    /\ rq = NoRequest
    /\ raCall = NoRetryAfter
    /\ piCall = NoParseInterval

\* parseInterval is about to be called, as TestAppParseInterval does
InitParseInterval ==
    /\ mode = "parseInterval"
    /\ InitNoPipeline
    /\ umask = DefaultUmask
    /\ interval \in IntervalInputs
    /\ st = NoStore
    /\ lim = NoLimiter
    /\ rq = NoRequest
    /\ raCall = NoRetryAfter
    /\ piCall = NoParseInterval

Init == InitCall \/ InitRun \/ InitStore \/ InitLimiter \/ InitRequest
        \/ InitRetryAfter \/ InitResources \/ InitParseInterval


(***************************************************************************)
(* The server and the network.  With several goroutines in flight          *)
(* (interval mode) the server answers 200 with a payload of at most one    *)
(* resource; a single call gets every answer.                              *)
(***************************************************************************)
StatusOK == 200
StatusTooManyRequests == 429
\* the statuses the server answers with; 500 stands for every other status
Statuses == {StatusOK, StatusTooManyRequests, 500}

\* values of the Retry-After header; <<>> is the header being absent
RetryAfterValues == {<<>>, <<"1">>, <<"0">>, <<"2", "s">>, <<"x">>}

AnswerStatuses == IF mode = "interval" THEN {StatusOK} ELSE Statuses
AnswerPayloads == IF mode = "interval"
                  THEN {d \in Payloads : Len(d.data) <= 1}
                  ELSE Payloads

(***************************************************************************)
(* Helpers of the goroutine steps.                                         *)
(***************************************************************************)
Alive == mainPc \notin {"returned", "crashed", "rejected"}

Set(p, f) == g' = [g EXCEPT ![p] = f]

\* the function called from outside returns err (and, for fetchData, d) at
\* the point named at; the frame keeps what the call did
Ret(f, at, d, err) ==
    [Idle EXCEPT !.pc = "ret", !.fn = f.fn, !.retAt = at, !.out = d,
                 !.result = err, !.sent = f.sent, !.gets = f.gets,
                 !.retries = f.retries, !.writes = f.writes,
                 !.failed = f.failed,
                 !.mkdirs = f.mkdirs, !.startCancelled = f.startCancelled]

\* an export that takes a payload it cannot decode for an empty list
AfterFetchLenient(f, at, d) ==
    [f EXCEPT !.pc = "resourceDir", !.rcs = resources(d).out, !.data = NoData,
              !.out = NoData, !.status = 0, !.hasRA = FALSE, !.open = 0]

\* export goes on after the fetch (R1) or after its entry check (R2):
\* resources(data), then resourceDir
AfterFetch(f, at, d) ==
    LET r == resources(d)
    IN  IF r.err # Nil
        THEN Ret(f, at, NoData, Wrap("retrieve resources", r.err))
        ELSE [f EXCEPT !.pc = "resourceDir", !.rcs = r.out, !.data = NoData,
                       !.out = NoData, !.status = 0, !.hasRA = FALSE, !.open = 0]

\* an export that wraps every error of fetchData, whatever the signal
FetchReturnWrap(f, at, d, err) ==
    IF f.fn = "fetchData" THEN Ret(f, at, d, err)
    ELSE IF err # Nil
         THEN Ret(f, at, NoData, Wrap("fetch data", err))
         ELSE AfterFetch(f, at, d)

\* fetchData returns (d, err): to its caller, or to export (export.go:32-43)
FetchReturn(f, at, d, err) ==
    IF f.fn = "fetchData" THEN Ret(f, at, d, err)
    ELSE IF err # Nil
         THEN Ret(f, at, NoData,
                  IF cancelled THEN Canceled ELSE Wrap("fetch data", err))
         ELSE AfterFetch(f, at, d)

\* Request returns an error to fetchData (export.go:75-80)
RequestError(f, at, err) ==
    FetchReturn(f, at, NoData,
                IF cancelled THEN Canceled ELSE Wrap("make request", err))

\* Request returns a response to fetchData (export.go:82-110): a 429 with a
\* Retry-After starts the backoff timer, anything else goes to io.ReadAll.
\* The body of the response is closed by a deferred call (export.go:82-88),
\* which runs when fetchData returns.
OnResponse(f, status, ra, body) ==
    IF status = StatusTooManyRequests /\ ra # <<>>
    THEN [f EXCEPT !.pc = "backoff", !.wait = retryAfter(ra),
                   !.timer = retryAfter(ra), !.elapsed = 0, !.sent = body,
                   !.retries = f.retries + 1,
                   !.status = status, !.hasRA = TRUE, !.open = f.open + 1]
    ELSE [f EXCEPT !.pc = "ReadAll", !.out = body, !.sent = body,
                   !.wait = 0, !.timer = 0, !.elapsed = 0,
                   !.status = status, !.hasRA = (ra # <<>>),
                   !.open = f.open + 1]

(***************************************************************************)
(* export, up to its first suspension point.                               *)
(***************************************************************************)
\* export without its entry check of ctx.Err()
ExportEntryNoCheck(p) ==
    /\ Alive
    /\ g[p].pc = "export"
    /\ LET f == [g[p] EXCEPT !.startCancelled = cancelled]
       IN  IF revision = "R1" THEN Set(p, [f EXCEPT !.pc = "fetchData"])
           ELSE Set(p, AfterFetch(f, "resources", f.data))
    /\ UNCHANGED <<config, unitVars, cancelled, fsVars, mainVars>>

ExportEntry(p) ==
    /\ Alive
    /\ g[p].pc = "export"
    /\ LET f == [g[p] EXCEPT !.startCancelled = cancelled]
       IN  IF cancelled THEN Set(p, Ret(f, "export", NoData, Canceled))
           ELSE IF revision = "R1" THEN Set(p, [f EXCEPT !.pc = "fetchData"])
           ELSE Set(p, AfterFetch(f, "resources", f.data))
    /\ UNCHANGED <<config, unitVars, cancelled, fsVars, mainVars>>

(***************************************************************************)
(* fetchData and Request.                                                  *)
(***************************************************************************)
\* the head of fetchData's loop (ctx.Err()), the call of Request and its
\* checks (validEndpoint, ctx.Err()), up to limiter.Wait
FetchLoop(p) ==
    /\ Alive
    /\ g[p].pc = "fetchData"
    /\ IF cancelled THEN Set(p, FetchReturn(g[p], "fetchData", NoData, Canceled))
       ELSE IF ~validEndpoint(endpoint)
       THEN Set(p, RequestError(g[p], "Request", ErrInvalidEndpoint))
       ELSE Set(p, [g[p] EXCEPT !.pc = "Wait"])
    /\ UNCHANGED <<config, unitVars, cancelled, fsVars, mainVars>>

\* limiter.Wait(ctx) returns: the context was done first, or the call is
\* admitted and c.Do sends the GET.  R1's request context is
\* context.Background() with a timeout (client.go:59); R2's is the caller's
\* (part_007:67), and c.Do on a done context sends nothing.
LimiterWait(p) ==
    /\ Alive
    /\ g[p].pc = "Wait"
    /\ \/ IF revision = "R2" /\ cancelled
          THEN Set(p, RequestError(g[p], "Do", Canceled))
          ELSE Set(p, [g[p] EXCEPT !.pc = "RoundTrip", !.gets = @ + 1])
       \/ /\ cancelled
          /\ Set(p, RequestError(g[p], "Wait", Wrap("rate limit wait", Canceled)))
    /\ UNCHANGED <<config, unitVars, cancelled, fsVars, mainVars>>

\* the server answers; fetchData looks at the status
Respond(p) ==
    /\ Alive
    /\ g[p].pc = "RoundTrip"
    /\ \E status \in AnswerStatuses, ra \in RetryAfterValues, body \in AnswerPayloads :
          /\ (status = StatusTooManyRequests /\ ra # <<>>) => g[p].retries < MaxRetry
          /\ Set(p, OnResponse(g[p], status, ra, body))
    /\ UNCHANGED <<config, unitVars, cancelled, fsVars, mainVars>>

\* c.Do fails: a transport error, R1's own timeout, or (R2) the caller's
\* cancellation
DoError(p) ==
    /\ Alive
    /\ g[p].pc = "RoundTrip"
    /\ \/ Set(p, RequestError(g[p], "Do", Wrap("do request", <<"transport">>)))
       \/ /\ revision = "R1"
          /\ Set(p, RequestError(g[p], "Do", DeadlineExceeded))
       \/ /\ revision = "R2" /\ cancelled
          /\ Set(p, RequestError(g[p], "Do", Canceled))
    /\ UNCHANGED <<config, unitVars, cancelled, fsVars, mainVars>>

\* a backoff whose ctx.Done() case returns a timeout error
BackoffTimeout(p) ==
    /\ Alive
    /\ g[p].pc = "backoff"
    /\ \/ /\ cancelled
          /\ Set(p, Ret(g[p], "backoff", NoData, DeadlineExceeded))
       \/ /\ g[p].timer <= 0
          /\ Set(p, [g[p] EXCEPT !.pc = "fetchData"])
    /\ UNCHANGED <<config, unitVars, cancelled, fsVars, mainVars>>

\* a backoff that gives up after the first retry
BackoffCeiling(p) ==
    /\ Alive
    /\ g[p].pc = "backoff"
    /\ \/ /\ cancelled
          /\ Set(p, FetchReturn(g[p], "backoff", NoData, Canceled))
       \/ /\ g[p].timer <= 0
          /\ IF g[p].retries > 1
             THEN Set(p, FetchReturn(g[p], "backoff", NoData, <<"too many retries">>))
             ELSE Set(p, [g[p] EXCEPT !.pc = "fetchData"])
    /\ UNCHANGED <<config, unitVars, cancelled, fsVars, mainVars>>

\* the select on ctx.Done() and timer.C (export.go:99-106)
Backoff(p) ==
    /\ Alive
    /\ g[p].pc = "backoff"
    /\ \/ /\ cancelled
          /\ Set(p, FetchReturn(g[p], "backoff", NoData, Canceled))
       \/ /\ g[p].timer <= 0
          /\ Set(p, [g[p] EXCEPT !.pc = "fetchData"])
    /\ UNCHANGED <<config, unitVars, cancelled, fsVars, mainVars>>

\* one second passes for every running backoff timer
TimePass ==
    /\ Alive
    /\ \E p \in Procs : g[p].pc = "backoff" /\ g[p].timer > 0
    /\ g' = [p \in Procs |->
               IF g[p].pc = "backoff" /\ g[p].timer > 0
               THEN [g[p] EXCEPT !.timer = IF @ > Second THEN @ - Second ELSE 0,
                                 !.elapsed = @ + Second]
               ELSE g[p]]
    /\ UNCHANGED <<config, unitVars, cancelled, fsVars, mainVars>>

\* the context of the response: R1's Request cancels it when it returns
\* (defer cancel(), client.go:60); R2's is the caller's
BodyCtxDone == revision = "R1" \/ cancelled

\* io.ReadAll(resp.Body): it may fail once the context of the request is done
ReadAll(p) ==
    /\ Alive
    /\ g[p].pc = "ReadAll"
    /\ \/ Set(p, FetchReturn(g[p], "ReadAll", g[p].out, Nil))
       \/ /\ BodyCtxDone
          /\ Set(p, FetchReturn(g[p], "ReadAll", NoData,
                                Wrap("read request body", Canceled)))
    /\ UNCHANGED <<config, unitVars, cancelled, fsVars, mainVars>>

(***************************************************************************)
(* export after the fetch: resourceDir, the loop.                          *)
(***************************************************************************)
\* a resourceDir that makes a directory of whatever is at the path
ResourceDirReplace(p) ==
    /\ Alive
    /\ g[p].pc = "resourceDir"
    /\ fsDir' = [fsDir EXCEPT !["rc"] = "dir"]
    /\ Set(p, [g[p] EXCEPT !.pc = "range"])
    /\ UNCHANGED <<config, unitVars, cancelled, files, mainVars>>

\* resourceDir on {dataDir}/{resource}.  After a successful MkdirAll, R1
\* (export.go:131-139) leaves the switch and calls dir.IsDir() on the nil
\* FileInfo that the failed os.Stat returned: a nil dereference, the process
\* panics.  R2 (part_004:133-136) returns nil there.
ResourceDir(p) ==
    /\ Alive
    /\ g[p].pc = "resourceDir"
    /\ CASE fsDir["rc"] = "absent" ->
              /\ fsDir' = [fsDir EXCEPT !["rc"] = "dir"]
              /\ IF revision = "R1"
                 THEN /\ Set(p, [g[p] EXCEPT !.pc = "panic", !.mkdirs = @ + 1])
                      /\ mainPc' = "crashed"
                 ELSE /\ Set(p, [g[p] EXCEPT !.pc = "range", !.mkdirs = @ + 1])
                      /\ UNCHANGED mainPc
         [] fsDir["rc"] = "file" ->
              /\ Set(p, Ret(g[p], "resourceDir", NoData,
                            Wrap("resource directory", <<"not directory">>)))
              /\ UNCHANGED <<fsDir, mainPc>>
         [] fsDir["rc"] = "dir" ->
              /\ Set(p, [g[p] EXCEPT !.pc = "range"])
              /\ UNCHANGED <<fsDir, mainPc>>
    /\ UNCHANGED <<config, unitVars, cancelled, files, wg, errCh, errs, tickPending, ticks,
                   launched, waiter, doneClosed, cleanupVia, runResult>>

\* a loop that never looks at ctx.Done()
RangeCheckNoCancel(p) ==
    /\ Alive
    /\ g[p].pc = "range"
    /\ IF g[p].i > Len(g[p].rcs) THEN Set(p, Ret(g[p], "range", NoData, Nil))
       ELSE Set(p, [g[p] EXCEPT !.pc = "storeResource"])
    /\ UNCHANGED <<config, unitVars, cancelled, fsVars, mainVars>>

\* the head of the loop over the resources, and the select on ctx.Done()
RangeCheck(p) ==
    /\ Alive
    /\ g[p].pc = "range"
    /\ IF g[p].i > Len(g[p].rcs) THEN Set(p, Ret(g[p], "range", NoData, Nil))
       ELSE IF cancelled THEN Set(p, Ret(g[p], "range", NoData, Canceled))
       ELSE Set(p, [g[p] EXCEPT !.pc = "storeResource"])
    /\ UNCHANGED <<config, unitVars, cancelled, fsVars, mainVars>>

\* the directory storeResource's file name lies in: R1 builds
\* "data/%ss/..." (export.go:164), R2 gets rcDir + "/..." (part_004:51)
StoreDir == IF revision = "R1" THEN "rcs" ELSE "rc"

\* os.Create / os.OpenFile with O_CREATE|O_TRUNC succeeds in a directory
CreateOk == fsDir[StoreDir] = "dir"

\* what happens to a file once it is open: json.Encode and Close succeed,
\* Encode fails (the file keeps a part of the resource), or Close fails
WriteOutcomes == IF mode = "interval" THEN {"ok"} ELSE {"ok", "encode", "close"}

\* the files after rc was written by p with the outcome w.  The name ends
\* in time.Now() to the second (export.go:164, part_004:51); the clock of
\* the model is the number of ticks, the interval being one second.  A file
\* of that name is truncated and keeps its mode.
Written(p, rc, w) ==
    LET same == {x \in files : x.dir = StoreDir /\ x.name = rc.name /\ x.ts = ticks}
        was == IF same = {} THEN <<>> ELSE (CHOOSE x \in same : TRUE).perm
    IN  (files \ same)
        \cup {[dir |-> StoreDir, name |-> rc.name, ts |-> ticks, gid |-> rc.gid,
               by |-> p, full |-> w # "encode",
               content |-> IF w # "encode" THEN <<Encode(rc)>> ELSE <<>>,
               perm |-> OpenFileMode(was)]}

\* a storeResource that leaves out every other resource
StoreResourceSkip(p) ==
    /\ Alive
    /\ g[p].pc = "storeResource"
    /\ CreateOk
    /\ files' = Written(p, g[p].rcs[g[p].i], "ok")
    /\ Set(p, [g[p] EXCEPT !.pc = "range", !.i = @ + 2, !.writes = @ + 1])
    /\ UNCHANGED <<config, unitVars, cancelled, fsDir, mainVars>>

\* storeResource(rc).  R1 logs a failed create and goes on (export.go:165-168);
\* R2 returns it and export returns "store resource: ..." (part_004:52-54).
\* Both log a failed Encode or Close and return as after a success
\* (export.go:170-180, part_004:195-207).
StoreResource(p) ==
    /\ Alive
    /\ g[p].pc = "storeResource"
    /\ LET f == [g[p] EXCEPT !.writes = @ + 1]
           rc == g[p].rcs[g[p].i]
       IN  IF CreateOk
           THEN \E w \in WriteOutcomes :
                   /\ files' = Written(p, rc, w)
                   /\ Set(p, [f EXCEPT !.pc = "range", !.i = @ + 1,
                                       !.failed = IF w = "ok" THEN @ ELSE @ + 1])
           ELSE /\ UNCHANGED files
                /\ IF revision = "R1"
                   THEN Set(p, [f EXCEPT !.pc = "range", !.i = @ + 1,
                                         !.failed = @ + 1])
                   ELSE Set(p, Ret([f EXCEPT !.failed = @ + 1], "storeResource",
                                   NoData, Wrap("store resource", <<"open">>)))
    /\ UNCHANGED <<config, unitVars, cancelled, fsDir, mainVars>>

(***************************************************************************)
(* The goroutine that runWithInterval starts around export                 *)
(* (part_002:95-101, 110-116).                                             *)
(***************************************************************************)
\* the error a goroutine has to send: export's, unless nil or a cancellation
MustSend(err) == err # Nil /\ ~IsCanceled(err)

\* a goroutine that is over keeps only what export returned
Exited(f) == [Idle EXCEPT !.pc = "exited", !.result = f.result,
                          !.retAt = f.retAt, !.startCancelled = f.startCancelled]

\* errCh <- err (when there is one to send), then the deferred wg.Done()
GoExit(p) ==
    /\ Alive
    /\ mode = "interval"
    /\ g[p].pc = "ret"
    /\ IF MustSend(g[p].result)
       THEN /\ Len(errCh) < errChCap
            /\ errCh' = Append(errCh, g[p].result)
       ELSE UNCHANGED errCh
    /\ wg' = wg - 1
    /\ Set(p, Exited(g[p]))
    /\ UNCHANGED <<config, unitVars, cancelled, fsVars, mainPc, errs, tickPending, ticks,
                   launched, waiter, doneClosed, cleanupVia, runResult>>

(***************************************************************************)
(* The signal: a.cancel().                                                 *)
(***************************************************************************)
Cancel ==
    /\ Alive
    /\ mode \in {"call", "once", "interval"}
    /\ ~cancelled
    /\ mainPc # "run"
    /\ mode = "call" => g[0].pc # "ret"
    /\ cancelled' = TRUE
    /\ UNCHANGED <<config, unitVars, fsVars, g, mainVars>>

(***************************************************************************)
(* run, runOnce, runWithInterval, finish, cleanup (part_002).              *)
(***************************************************************************)
\* run (part_002:33-62): parseInterval's error is returned at once; an
\* interval starts runWithInterval, which starts the first export
\* goroutine; no interval starts runOnce, which calls export
Run ==
    /\ mainPc = "run"
    /\ LET r == parseInterval(interval)
       IN  IF r.err # Nil
           THEN /\ mainPc' = "rejected"
                /\ runResult' = [count |-> 0, err |-> r.err]
                /\ UNCHANGED <<wg, g, launched>>
           ELSE /\ IF r.d > 0
                   THEN /\ mainPc' = "select"
                        /\ wg' = wg + 1
                   ELSE /\ mainPc' = "runOnce"
                        /\ UNCHANGED wg
                /\ Set(0, Start("export", NoData))
                /\ launched' = 1
                /\ UNCHANGED runResult
    /\ UNCHANGED <<config, unitVars, cancelled, fsVars, errCh, errs, tickPending, ticks,
                   waiter, doneClosed, cleanupVia>>

\* runOnce: export returned
OnceReturn ==
    /\ mainPc = "runOnce"
    /\ g[0].pc = "ret"
    /\ errs' = IF MustSend(g[0].result) THEN <<g[0].result>> ELSE <<>>
    /\ Set(0, Exited(g[0]))
    /\ mainPc' = "finish"
    /\ UNCHANGED <<config, unitVars, cancelled, fsVars, wg, errCh, tickPending, ticks,
                   launched, waiter, doneClosed, cleanupVia, runResult>>

\* the ticker of runWithInterval, stopped when it returns
Tick ==
    /\ mainPc \in {"select", "finish", "cleanup"}
    /\ mode = "interval"
    /\ ~tickPending
    /\ ticks < MaxTicks
    /\ tickPending' = TRUE
    /\ ticks' = ticks + 1
    /\ UNCHANGED <<config, unitVars, cancelled, fsVars, g, mainPc, wg, errCh, errs,
                   launched, waiter, doneClosed, cleanupVia, runResult>>

\* the select of runWithInterval: Go picks any of the cases that are ready
SelectDone ==
    /\ mainPc = "select"
    /\ cancelled
    /\ mainPc' = "finish"
    /\ UNCHANGED <<config, unitVars, cancelled, fsVars, g, wg, errCh, errs, tickPending,
                   ticks, launched, waiter, doneClosed, cleanupVia, runResult>>

\* a coordinator that starts an execution only when none is in flight
SelectTickSerial ==
    /\ mainPc = "select"
    /\ tickPending
    /\ wg = 0
    /\ tickPending' = FALSE
    /\ wg' = wg + 1
    /\ Set(launched, Start("export", NoData))
    /\ launched' = launched + 1
    /\ UNCHANGED <<config, unitVars, cancelled, fsVars, mainPc, errCh, errs,
                   ticks, waiter, doneClosed, cleanupVia, runResult>>

SelectTick ==
    /\ mainPc = "select"
    /\ tickPending
    /\ tickPending' = FALSE
    /\ wg' = wg + 1
    /\ Set(launched, Start("export", NoData))
    /\ launched' = launched + 1
    /\ UNCHANGED <<config, unitVars, cancelled, fsVars, mainPc, errCh, errs, ticks, waiter,
                   doneClosed, cleanupVia, runResult>>

SelectErr ==
    /\ mainPc = "select"
    /\ errCh # <<>>
    /\ errs' = Append(errs, Head(errCh))
    /\ errCh' = Tail(errCh)
    /\ UNCHANGED <<config, unitVars, cancelled, fsVars, g, mainPc, wg, tickPending, ticks,
                   launched, waiter, doneClosed, cleanupVia, runResult>>

\* finish starts the goroutine that waits for the WaitGroup, calls cleanup
Finish ==
    /\ mainPc = "finish"
    /\ waiter' = TRUE
    /\ mainPc' = "cleanup"
    /\ UNCHANGED <<config, unitVars, cancelled, fsVars, g, wg, errCh, errs, tickPending,
                   ticks, launched, doneClosed, cleanupVia, runResult>>

\* wg.Wait() returns, close(a.done)
WaiterClose ==
    /\ Alive
    /\ waiter
    /\ wg = 0
    /\ ~doneClosed
    /\ doneClosed' = TRUE
    /\ UNCHANGED <<config, unitVars, cancelled, fsVars, g, mainPc, wg, errCh, errs,
                   tickPending, ticks, launched, waiter, cleanupVia, runResult>>

\* a finish that reports the last error, and none for a single one
FinishResultLast(es) ==
    [count |-> Len(es),
     err |-> IF Len(es) > 1
             THEN Wrap("encountered errors during export, first error", es[Len(es)])
             ELSE Nil]

\* what finish returns for the error list
FinishResult(es) ==
    [count |-> Len(es),
     err |-> IF Len(es) > 0
             THEN Wrap("encountered errors during export, first error", es[1])
             ELSE Nil]

\* cleanup's select: a.done is closed ...
CleanupDone ==
    /\ mainPc = "cleanup"
    /\ doneClosed
    /\ cleanupVia' = "done"
    /\ runResult' = FinishResult(errs)
    /\ mainPc' = "returned"
    /\ UNCHANGED <<config, unitVars, cancelled, fsVars, g, wg, errCh, errs, tickPending,
                   ticks, launched, waiter, doneClosed>>

\* a cleanup whose select has no timeout case
CleanupNoTimeout ==
    /\ mainPc = "cleanup"
    /\ doneClosed
    /\ cleanupVia' = "timeout"
    /\ runResult' = FinishResult(errs)
    /\ mainPc' = "returned"
    /\ UNCHANGED <<config, unitVars, cancelled, fsVars, g, wg, errCh, errs, tickPending,
                   ticks, launched, waiter, doneClosed>>

\* ... or time.After(30 * time.Second) fires
CleanupTimeout ==
    /\ mainPc = "cleanup"
    /\ cleanupVia' = "timeout"
    /\ runResult' = FinishResult(errs)
    /\ mainPc' = "returned"
    /\ UNCHANGED <<config, unitVars, cancelled, fsVars, g, wg, errCh, errs, tickPending,
                   ticks, launched, waiter, doneClosed>>

(***************************************************************************)
(* Functions called by themselves.                                         *)
(***************************************************************************)
\* one call of storeResource with the arguments of st
CallStoreResource ==
    /\ mode = "storeResource"
    /\ st.calls < MaxCalls
    /\ LET r == storeResource(st.dataDir, st.filename)
       IN  st' = [st EXCEPT !.calls = @ + 1, !.err = r.err,
                            !.created = @ \cup r.opened,
                            !.perm = IF r.err = Nil THEN OpenFileMode(@) ELSE @]
    /\ UNCHANGED <<config, piCall, raCall, lim, rq, cancelled, fsVars, g, mainVars>>

\* NewClient(t, r)
NewClient ==
    /\ mode = "limiter"
    /\ ~lim.built
    /\ lim' = NewLimiter(lim.r)
    /\ UNCHANGED <<config, piCall, raCall, st, rq, cancelled, fsVars, g, mainVars>>

\* time passes: the limiter's tokens grow by limit per second, up to burst
\* (Limiter.advance)
LimiterAdvance ==
    /\ mode = "limiter"
    /\ lim.built
    /\ lim.clock + TimeStep <= Window
    /\ LET grown == lim.tokens + lim.limit * TimeStep
       IN  lim' = [lim EXCEPT !.clock = @ + TimeStep,
                              !.tokens = IF grown > lim.burst THEN lim.burst
                                         ELSE grown]
    /\ UNCHANGED <<config, piCall, raCall, st, rq, cancelled, fsVars, g, mainVars>>

\* limiter.Wait(ctx) of one Request returns nil and the GET is sent
\* (client.go:55-69).  With a limit of 0 reserveN takes the token from the
\* burst itself; otherwise Wait returns once a token is there for it.
LimiterTake ==
    /\ mode = "limiter"
    /\ lim.built
    /\ lim.clock < Window
    /\ lim.sent <= lim.r
    /\ IF lim.limit = 0
       THEN /\ lim.burst >= 1
            /\ lim' = [lim EXCEPT !.burst = @ - 1, !.tokens = @ - 1,
                                  !.sent = @ + 1]
       ELSE /\ lim.tokens >= 1
            /\ lim' = [lim EXCEPT !.tokens = @ - 1, !.sent = @ + 1]
    /\ UNCHANGED <<config, piCall, raCall, st, rq, cancelled, fsVars, g, mainVars>>

\* resources(d) is called and returns the list and the error
CallResources ==
    /\ mode = "resources"
    /\ g[0].pc = "resources"
    /\ LET r == resources(g[0].data)
       IN  Set(0, [g[0] EXCEPT !.pc = "ret", !.retAt = "resources",
                              !.rcs = r.out, !.result = r.err])
    /\ UNCHANGED <<config, unitVars, cancelled, fsVars, mainVars>>

\* retryAfter(s) is called and returns
CallRetryAfter ==
    /\ mode = "retryAfter"
    /\ ~raCall.called
    /\ raCall' = [raCall EXCEPT !.called = TRUE, !.wait = retryAfter(raCall.s)]
    /\ UNCHANGED <<config, piCall, st, lim, rq, cancelled, fsVars, g, mainVars>>

\* parseInterval is called and returns
CallParseInterval ==
    /\ mode = "parseInterval"
    /\ ~piCall.called
    /\ LET r == parseInterval(interval)
       IN  piCall' = [called |-> TRUE, d |-> r.d, err |-> r.err]
    /\ UNCHANGED <<config, st, lim, rq, raCall, cancelled, fsVars, g, mainVars>>

\* Request returns err (and the response, if there is one)
RequestRet(err) == [rq EXCEPT !.pc = "ret", !.err = err, !.resp = (err = Nil)]

\* limiter.Wait up to its select (reserveN): a token that is there is
\* taken; with a limit of 0 it comes out of the burst, and none left is an
\* error at once; otherwise the token is reserved, and Wait fails at once
\* if the context's deadline comes before it
WaitReserve(r) ==
    IF lim.limit = 0
    THEN IF lim.burst >= 1
         THEN /\ lim' = [lim EXCEPT !.burst = @ - 1, !.tokens = @ - 1]
              /\ rq' = [r EXCEPT !.pc = "Do"]
         ELSE /\ rq' = [r EXCEPT !.pc = "ret",
                                 !.err = Wrap("rate limit wait", ErrExceedsBurst)]
              /\ UNCHANGED lim
    ELSE IF lim.tokens >= 1
         THEN /\ lim' = [lim EXCEPT !.tokens = @ - 1]
              /\ rq' = [r EXCEPT !.pc = "Do"]
         ELSE IF r.short
         THEN /\ rq' = [r EXCEPT !.pc = "ret",
                                 !.err = Wrap("rate limit wait", ErrWouldExceed)]
              /\ UNCHANGED lim
         ELSE /\ lim' = [lim EXCEPT !.tokens = @ - 1]
              /\ rq' = [r EXCEPT !.pc = "waiting"]

\* a Request that looks at the context before it looks at the URL
RequestCallCtxFirst ==
    /\ mode = "request"
    /\ rq.pc = "call"
    /\ IF rq.ctx # "live"
       THEN rq' = RequestRet(CtxErr(rq.ctx)) /\ UNCHANGED lim
       ELSE IF ~validEndpoint(rq.url)
       THEN /\ rq' = [RequestRet(ErrInvalidEndpoint) EXCEPT !.verdict = "invalid"]
            /\ UNCHANGED lim
       ELSE WaitReserve([rq EXCEPT !.verdict = "valid"])
    /\ UNCHANGED <<config, piCall, raCall, st, cancelled, fsVars, g, mainVars>>

\* Request: validEndpoint, ctx.Err(), and limiter.Wait up to its select
RequestCall ==
    /\ mode = "request"
    /\ rq.pc = "call"
    /\ IF ~validEndpoint(rq.url)
       THEN /\ rq' = [RequestRet(ErrInvalidEndpoint) EXCEPT !.verdict = "invalid"]
            /\ UNCHANGED lim
       ELSE IF rq.ctx # "live"
       THEN /\ rq' = [RequestRet(CtxErr(rq.ctx)) EXCEPT !.verdict = "valid"]
            /\ UNCHANGED lim
       ELSE WaitReserve([rq EXCEPT !.verdict = "valid"])
    /\ UNCHANGED <<config, piCall, raCall, st, cancelled, fsVars, g, mainVars>>

\* the caller cancels its context, or the context's deadline passes
RequestCtxDone ==
    /\ mode = "request"
    /\ rq.pc \in {"waiting", "Do", "flight"}
    /\ rq.ctx = "live"
    /\ \E c \in {"canceled", "deadline"} :
          /\ c = "deadline" => rq.pc = "flight"
          /\ rq' = [rq EXCEPT !.ctx = c,
                              !.doneInWait = (rq.pc = "waiting" /\ ~rq.due)]
    /\ UNCHANGED <<config, piCall, raCall, st, lim, cancelled, fsVars, g, mainVars>>

\* the timer of the reservation fires: the token is there
RequestTokenDue ==
    /\ mode = "request"
    /\ rq.pc = "waiting"
    /\ ~rq.due
    /\ rq' = [rq EXCEPT !.due = TRUE]
    /\ UNCHANGED <<config, piCall, raCall, st, lim, cancelled, fsVars, g, mainVars>>

\* limiter.Wait's select on the timer and ctx.Done(): Go takes any case
\* that is ready.  On ctx.Done() the reservation is given back.
RequestWaitSelect ==
    /\ mode = "request"
    /\ rq.pc = "waiting"
    /\ \/ /\ rq.due
          /\ rq' = [rq EXCEPT !.pc = "Do"]
          /\ UNCHANGED lim
       \/ /\ rq.ctx # "live"
          /\ rq' = RequestRet(Wrap("rate limit wait", CtxErr(rq.ctx)))
          /\ lim' = [lim EXCEPT !.tokens = @ + 1]
    /\ UNCHANGED <<config, piCall, raCall, st, cancelled, fsVars, g, mainVars>>

\* c.Do(req): R1's request carries a context of its own, so the GET goes
\* out; R2's carries the caller's, and Do on a done context sends nothing
\* and Request returns ctx.Err()
RequestDo ==
    /\ mode = "request"
    /\ rq.pc = "Do"
    /\ IF revision = "R2" /\ rq.ctx # "live"
       THEN rq' = RequestRet(CtxErr(rq.ctx))
       ELSE rq' = [rq EXCEPT !.pc = "flight", !.gets = @ + 1]
    /\ UNCHANGED <<config, piCall, raCall, st, lim, cancelled, fsVars, g, mainVars>>

\* a second passes with the GET in flight: R1's Do waits for the server or
\* for its own timeout, R2's for the server or for the caller's context
RequestInFlight ==
    /\ mode = "request"
    /\ rq.pc = "flight"
    /\ rq.elapsed < MaxFlight
    /\ revision = "R1" => rq.elapsed < RequestTimeout
    /\ revision = "R2" => rq.ctx = "live"
    /\ rq' = [rq EXCEPT !.elapsed = @ + 1]
    /\ UNCHANGED <<config, piCall, raCall, st, lim, cancelled, fsVars, g, mainVars>>

\* the server's response arrives and Request returns it
RequestResponse ==
    /\ mode = "request"
    /\ rq.pc = "flight"
    /\ rq' = RequestRet(Nil)
    /\ UNCHANGED <<config, piCall, raCall, st, lim, cancelled, fsVars, g, mainVars>>

\* c.Do fails: a transport error, R1's timeout, or (R2) the caller's context
RequestDoError ==
    /\ mode = "request"
    /\ rq.pc = "flight"
    /\ \/ rq' = RequestRet(Wrap("do request", <<"transport">>))
       \/ /\ revision = "R1" /\ rq.elapsed >= RequestTimeout
          /\ rq' = RequestRet(DeadlineExceeded)
       \/ /\ revision = "R2" /\ rq.ctx # "live"
          /\ rq' = RequestRet(CtxErr(rq.ctx))
    /\ UNCHANGED <<config, piCall, raCall, st, lim, cancelled, fsVars, g, mainVars>>

GoStep(p) ==
    \/ ExportEntry(p) \/ FetchLoop(p) \/ LimiterWait(p) \/ Respond(p)
    \/ DoError(p) \/ Backoff(p) \/ ReadAll(p) \/ ResourceDir(p)
    \/ RangeCheck(p) \/ StoreResource(p) \/ GoExit(p)

MainStep ==
    \/ Run \/ OnceReturn \/ SelectDone \/ SelectTick \/ SelectErr
    \/ Finish \/ CleanupDone \/ CleanupTimeout

Next ==
    \/ \E p \in Procs : GoStep(p)
    \/ MainStep
    \/ WaiterClose
    \/ Tick
    \/ TimePass
    \/ Cancel
    \/ CallStoreResource
    \/ NewClient
    \/ LimiterAdvance
    \/ LimiterTake
    \/ RequestCall
    \/ RequestCtxDone
    \/ RequestTokenDue
    \/ RequestWaitSelect
    \/ RequestDo
    \/ RequestInFlight
    \/ RequestResponse
    \/ RequestDoError
    \/ CallRetryAfter
    \/ CallResources
    \/ CallParseInterval

Spec == Init /\ [][Next]_vars

\* the main goroutine is scheduled, and the timer of time.After fires; a
\* Request that was called runs, the timer of its reservation fires, and
\* limiter.Wait's select takes a case that is ready
FairSpec ==
    /\ Spec
    /\ WF_vars(Finish)
    /\ WF_vars(CleanupDone \/ CleanupTimeout)
    /\ WF_vars(RequestCall)
    /\ WF_vars(RequestTokenDue)
    /\ WF_vars(RequestWaitSelect)

(***************************************************************************)
(* Cancellation of export.                                                 *)
(***************************************************************************)
\* C1: an export that starts with the cancellation signal already triggered
\* returns the cancellation error in its one step, having sent no request,
\* created no directory and written no file.
C1_CancelledBeforeStart ==
    [][\A p \in Procs :
         (cancelled /\ g[p].pc = "export" /\ g'[p] # g[p]) =>
            /\ g'[p].pc = "ret"
            /\ g'[p].result = Canceled
            /\ g'[p].gets = 0 /\ g'[p].mkdirs = 0 /\ g'[p].writes = 0
            /\ fsDir' = fsDir
            /\ files' = files]_vars

C1_Witness ==
    \E p \in Procs :
       /\ g[p].pc = "ret" /\ g[p].retAt = "export" /\ g[p].startCancelled
       /\ g[p].result = Canceled /\ g[p].gets = 0 /\ files = {}

\* C2 as stated: an export that is in its loop, has started a write and
\* finds the signal triggered, returns the cancellation error, never success.
C2_AsStated ==
    [][\A p \in Procs :
         (cancelled /\ g[p].pc = "range" /\ g[p].writes >= 1 /\ g'[p].pc = "ret") =>
            g'[p].result = Canceled]_vars

\* C2, amended: at a cancellation check made with the signal triggered and a
\* resource left, export starts no write and returns the cancellation error;
\* with no resource left there is no check and export returns success,
\* whether or not the signal came during the last write; with the signal
\* not triggered the next write starts.  No step removes a file.
C2_CancelInLoop ==
    [][/\ \A p \in Procs :
            (g[p].pc = "range" /\ g'[p] # g[p]) =>
               IF g[p].i > Len(g[p].rcs)
               THEN g'[p].pc = "ret" /\ g'[p].result = Nil /\ files' = files
               ELSE IF cancelled
               THEN /\ g'[p].pc = "ret" /\ g'[p].result = Canceled
                    /\ g'[p].writes = g[p].writes /\ files' = files
               ELSE g'[p].pc = "storeResource"
       /\ \A x \in files :
             \E y \in files' : y.dir = x.dir /\ y.name = x.name /\ y.ts = x.ts]_vars

C2_Witness ==
    \E p \in Procs :
       /\ g[p].pc = "ret" /\ g[p].retAt = "range" /\ g[p].result = Canceled
       /\ g[p].writes >= 1
       /\ \E x \in files : x.by = p

(***************************************************************************)
(* The coordinator of interval mode.                                       *)
(***************************************************************************)
\* C3: in interval mode, when run has returned and an execution has sent a
\* non-cancellation error, run's result is the composite error.
C3_NoErrorLost ==
    (mode = "interval" /\ mainPc = "returned"
        /\ \E p \in Procs : g[p].pc = "exited" /\ MustSend(g[p].result))
    => runResult.err # Nil

\* C4: once the coordinator has left its loop, no goroutine is blocked on
\* sending its error to a full error channel that nobody receives from.
C4_NoBlockedSender ==
    ~ \E p \in Procs :
         /\ mainPc \in {"finish", "cleanup"}
         /\ g[p].pc = "ret" /\ MustSend(g[p].result)
         /\ Len(errCh) = errChCap

\* C5: finish does not block forever: once run is in finish, either finish
\* returns or the process has died (the panic of R1's resourceDir); it
\* leaves cleanup through a.done only when every execution has drained.
C5_FinishReturns ==
    /\ [](cleanupVia = "done" => (wg = 0 /\ doneClosed))
    /\ (mainPc \in {"finish", "cleanup"}) ~> (mainPc \in {"returned", "crashed"})

C5_Witness ==
    mainPc = "returned" /\ cleanupVia = "timeout" /\ wg > 0 /\ ~doneClosed

\* C6: once the signal is triggered no step starts a pipeline execution.
C6_NoLaunchAfterCancel ==
    [][cancelled => launched' = launched]_vars

(***************************************************************************)
(* Rate-limit retries of fetchData.                                        *)
(***************************************************************************)
\* C7: a fetchData that was answered by k 429s with a Retry-After and then
\* by another response, with no cancellation, returns that response's body
\* after k+1 requests; every retry came after at least the computed wait.
C7_RetryThenBody ==
    \A p \in Procs :
       /\ (g[p].pc = "ret" /\ g[p].fn = "fetchData" /\ g[p].retAt = "ReadAll"
              /\ ~cancelled)
          => /\ g[p].result = Nil
             /\ g[p].out = g[p].sent
             /\ g[p].gets = g[p].retries + 1
       /\ (g[p].pc \in {"fetchData", "Wait", "RoundTrip"} /\ g[p].retries > 0)
          => g[p].elapsed >= g[p].wait

\* C8: with the signal triggered, a fetchData in its backoff can return at
\* once; when it leaves the backoff it returns the cancellation error, or
\* finds the signal at the head of its loop and returns it there; it sends
\* no request on the way.
C8_CancelDuringBackoff ==
    /\ [](\A p \in Procs :
            (Alive /\ cancelled /\ g[p].pc = "backoff") => ENABLED Backoff(p))
    /\ [][\A p \in Procs :
            /\ (cancelled /\ g[p].pc = "backoff" /\ g'[p].pc # "backoff") =>
                  /\ g'[p].gets = g[p].gets
                  /\ \/ g'[p].pc = "ret" /\ g'[p].result = Canceled
                     \/ g'[p].pc = "fetchData" /\ g[p].timer <= 0
            /\ (cancelled /\ g[p].pc = "fetchData" /\ g'[p] # g[p]) =>
                  /\ g'[p].gets = g[p].gets
                  /\ g'[p].pc = "ret" /\ g'[p].result = Canceled]_vars

C8_Witness ==
    \E p \in Procs :
       /\ g[p].pc = "ret" /\ g[p].retAt = "backoff" /\ g[p].result = Canceled
       /\ g[p].retries >= 1 /\ g[p].gets = g[p].retries

C10_RetryMaximum ==
    \E maxRetries \in 0 .. MaxRetry - 1 :
       \A p \in Procs : g[p].retries <= maxRetries

(***************************************************************************)
(* storeResource and the data root.                                        *)
(***************************************************************************)
\* the absolute path fa is the directory da or lies below it
Inside(fa, da) ==
    /\ Len(fa.comps) >= Len(da.comps)
    /\ SubSeq(fa.comps, 1, Len(da.comps)) = da.comps

\* C11: every call of storeResource with a filename whose cleaned absolute
\* path is neither the data root nor below it returns the path error and
\* has opened no file, on the first call and on every later one.
C11_TraversalRejected ==
    (mode = "storeResource" /\ st.calls >= 1
        /\ ~Inside(Abs(Clean(st.filename)), Abs(st.dataDir)))
    => (st.err = ErrTraversal /\ st.created = {})

(***************************************************************************)
(* Persisting the resources.                                               *)
(***************************************************************************)
\* C12: an export that met a failure of create, encode or close is not in
\* its loop any more: it has returned, and what it returned is an error.
C12_PersistFailFast ==
    \A p \in Procs :
       g[p].failed > 0 => (g[p].pc = "ret" /\ g[p].result # Nil)

\* C13: in its loop export has passed exactly the first i-1 resources of the
\* decoded list to storeResource, once each and in the order of the list;
\* storeResource writes the resource at i and the loop moves to i+1; export
\* returns success from the loop only with the whole list passed, and, when
\* no write failed, with a complete file of every resource in place.
C13_EachOnceInOrder ==
    /\ [](\A p \in Procs :
            /\ g[p].pc = "range" =>
                  g[p].i = g[p].writes + 1 /\ g[p].i <= Len(g[p].rcs) + 1
            /\ g[p].pc = "storeResource" =>
                  g[p].i = g[p].writes + 1 /\ g[p].i <= Len(g[p].rcs))
    /\ [][\A p \in Procs :
            /\ (g[p].pc = "storeResource" /\ g'[p] # g[p]) =>
                  /\ g'[p].writes = g[p].writes + 1
                  /\ g'[p].pc = "range" => g'[p].i = g[p].i + 1
                  /\ g'[p].failed = g[p].failed =>
                        \E y \in files' :
                           /\ y.name = g[p].rcs[g[p].i].name
                           /\ y.gid = g[p].rcs[g[p].i].gid
                           /\ y.by = p /\ y.full
            /\ (g[p].pc = "range" /\ g'[p].pc = "ret" /\ g'[p].result = Nil) =>
                  /\ g[p].writes = Len(g[p].rcs)
                  /\ g[p].failed = 0 =>
                        \A k \in 1 .. Len(g[p].rcs) :
                           \E y \in files :
                              /\ y.name = g[p].rcs[k].name
                              /\ y.gid = g[p].rcs[k].gid /\ y.full]_vars

C13_Witness ==
    \E p \in Procs :
       /\ g[p].pc = "ret" /\ g[p].retAt = "range" /\ g[p].result = Nil
       /\ g[p].writes = MaxRes /\ g[p].failed = 0
       /\ Cardinality({y \in files : y.by = p /\ y.full}) = MaxRes

(***************************************************************************)
(* resourceDir.                                                            *)
(***************************************************************************)
\* C14: resourceDir on a path that does not exist creates the directory and
\* returns nil; on a directory it returns nil and changes nothing; the
\* process does not die in it.
C14_EnsureIdempotent ==
    [][\A p \in Procs :
         (g[p].pc = "resourceDir" /\ g'[p] # g[p] /\ fsDir["rc"] # "file") =>
            /\ g'[p].pc = "range"
            /\ mainPc' # "crashed"
            /\ fsDir'["rc"] = "dir"
            /\ fsDir["rc"] = "dir" =>
                  fsDir' = fsDir /\ g'[p].mkdirs = g[p].mkdirs]_vars

\* C15: resourceDir on a path that is a regular file makes export return
\* the not-a-directory error, on every call; the file stays a file, and the
\* export has written nothing.
C15_NotADirectory ==
    [][\A p \in Procs :
         (g[p].pc = "resourceDir" /\ g'[p] # g[p] /\ fsDir["rc"] = "file") =>
            /\ g'[p].pc = "ret"
            /\ g'[p].result = Wrap("resource directory", <<"not directory">>)
            /\ g'[p].writes = 0 /\ g'[p].mkdirs = 0
            /\ fsDir' = fsDir
            /\ files' = files]_vars

C15_Witness ==
    \E p \in Procs :
       /\ g[p].pc = "ret" /\ g[p].retAt = "resourceDir"
       /\ g[p].result = Wrap("resource directory", <<"not directory">>)
       /\ g[p].writes = 0 /\ fsDir["rc"] = "file"

(***************************************************************************)
(* The result of run.                                                      *)
(***************************************************************************)
\* C16: what finish has returned is an error exactly when the error list
\* is not empty; the error then gives the length of the list and wraps its
\* first element; with an empty list it is nil, cancelled or not.
C16_FinishResult ==
    mainPc = "returned" =>
       /\ runResult.count = Len(errs)
       /\ (runResult.err # Nil) <=> (errs # <<>>)
       /\ errs # <<>> =>
             runResult.err =
                Wrap("encountered errors during export, first error", errs[1])

C16_Witness ==
    /\ mainPc = "returned" /\ cancelled
    /\ errs # <<>> /\ runResult.count = 1 /\ IsCanceled(runResult.err) = FALSE

(***************************************************************************)
(* Overlapping executions of interval mode.                                *)
(***************************************************************************)
\* the executions in flight: started and not yet over
InFlight == {p \in Procs : g[p].pc \notin {"idle", "exited"}}

\* C17: in interval mode the coordinator, at its select with a tick ready,
\* can start an execution whatever the number of executions in flight, and
\* the in-flight counter counts every execution that is in flight.
C17_Overlap ==
    /\ [](mode = "interval" => wg = Cardinality(InFlight))
    /\ []((mainPc = "select" /\ tickPending) => ENABLED SelectTick)
    /\ [][(mainPc = "select" /\ launched' = launched + 1) =>
            (wg' = wg + 1 /\ InFlight' = InFlight \cup {launched})]_vars

C17_Witness ==
    /\ mode = "interval" /\ ~cancelled
    /\ wg >= 2
    /\ \E p, q \in Procs :
          /\ p # q
          /\ g[p].pc \in {"RoundTrip", "ReadAll", "storeResource"}
          /\ g[q].pc \in {"RoundTrip", "ReadAll", "storeResource"}

\* C18: no step replaces a file written by an execution that is still in
\* flight by a file that another execution writes to the same path.
C18_DistinctPaths ==
    [][\A x \in files :
         x.by \in InFlight =>
            \E y \in files' :
               /\ y.dir = x.dir /\ y.name = x.name /\ y.ts = x.ts
               /\ y.by = x.by]_vars

(***************************************************************************)
(* The rate limit.                                                         *)
(***************************************************************************)
\* C19: the GET requests sent through one Client in the first 60 seconds
\* are at most the configured requests per minute.
C19_AtMostRatePerMinute ==
    mode = "limiter" => lim.sent <= lim.r

\* C20: the limiter that NewClient builds for the rate r has burst r and a
\* limit that gives back r tokens in 60 seconds.
C20_LimiterOfRate ==
    (mode = "limiter" /\ lim.built /\ lim.clock = 0 /\ lim.sent = 0) =>
       (lim.burst = lim.r /\ lim.limit * Window = lim.r)

(***************************************************************************)
(* Client.Request and validEndpoint.                                       *)
(***************************************************************************)
\* the chain of a "rate limit wait: ..." error
IsRateLimitWait(err) == err # Nil /\ err[1] = "rate limit wait"

\* C21: a Request whose context was cancelled while it waited for a token
\* (none was left, and the timer of its reservation had not fired) sends no
\* GET, and the error it returns is a rate-limit-wait error.
C21_CancelledWhileWaiting ==
    rq.doneInWait =>
       /\ rq.gets = 0
       /\ rq.pc = "ret" => IsRateLimitWait(rq.err)

\* C22: while the GET is in flight and the caller's context is done, Request
\* does not go on waiting for the server: the next thing it does is return.
C22_CancelInFlight ==
    [][(rq.pc = "flight" /\ rq.ctx # "live" /\ rq' # rq) => rq'.pc = "ret"]_vars

\* C23: a Request with a URL that validEndpoint rejects returns in its first
\* step, with exactly ErrInvalidEndpoint and no response, whatever the
\* context and the limiter hold; it sends no GET and leaves the limiter as
\* it was.
C23_InvalidEndpoint ==
    [][(rq.pc = "call" /\ ~validEndpoint(rq.url) /\ rq' # rq) =>
          /\ rq'.pc = "ret"
          /\ rq'.err = ErrInvalidEndpoint
          /\ ~rq'.resp
          /\ rq'.gets = 0
          /\ lim' = lim]_vars

\* an invalid URL, a done context, a token at hand: ErrInvalidEndpoint
C23_Witness ==
    /\ rq.pc = "ret" /\ ~validEndpoint(rq.url)
    /\ rq.err = ErrInvalidEndpoint
    /\ rq.ctx = "canceled"
    /\ lim.tokens = 1 /\ rq.gets = 0

\* the hosts that are localhost or a loopback address, among URLs
LoopbackHost(h) == h \in {<<"localhost">>, <<"127.0.0.1">>, <<"[", "::1", "]">>}

\* C24: the verdict of validEndpoint on a URL is "valid" exactly when the
\* URL parses, is absolute with scheme http or https, has a non-empty host
\* that is not localhost or a loopback address, no fragment, no user-info,
\* and at most 2048 characters.
C24_ValidExactlyWhen ==
    rq.verdict # "none" =>
       (rq.verdict = "valid" <=>
           /\ ~rq.url.blank /\ rq.url.parses
           /\ rq.url.scheme \in {"http", "https"}
           /\ rq.url.host # <<>> /\ ~LoopbackHost(rq.url.host)
           /\ rq.url.fragment = "" /\ ~rq.url.user
           /\ rq.url.length <= MaxURLLen)

(***************************************************************************)
(* retryAfter.                                                             *)
(***************************************************************************)
\* the decimal digits of n >= 0, without leading zeros (none for 0)
RECURSIVE Decimal(_)
Decimal(n) == IF n = 0 THEN <<>>
              ELSE Append(Decimal(n \div 10), CHOOSE c \in Digit : DigitVal(c) = n % 10)

\* w milliseconds are exactly the S seconds that the signed digits s denote
ExactlySeconds(s, w) ==
    LET a == IF w < 0 THEN 0 - w ELSE w
    IN  /\ a % Second = 0
        /\ Decimal(a \div Second) = DropZeros(Unsigned(s))
        /\ w < 0 => SignOf(s) = -1
        /\ w > 0 => SignOf(s) = 1

\* C25: retryAfter returns exactly S seconds for an integer count S, the
\* parsed duration for a duration string, the time that remains for an
\* HTTP-date in the future, and 5 seconds for every other string (empty,
\* unparseable, a date that is not in the future).
C25_RetryAfterValue ==
    raCall.called =>
       IF IsDigits(Unsigned(raCall.s)) THEN ExactlySeconds(raCall.s, raCall.wait)
       ELSE IF ParseDurationOk(raCall.s) THEN raCall.wait = ParseDuration(raCall.s)
       ELSE IF ParseTimeOk(raCall.s) /\ Until(raCall.s) > 0 THEN raCall.wait = Until(raCall.s)
       ELSE raCall.wait = defaultRetryAfter * Second

(***************************************************************************)
(* fetchData, export and the responses.                                    *)
(***************************************************************************)
\* C26: fetchData goes into a backoff (and so to another request) only on a
\* response with status 429 and a non-empty Retry-After; on every other
\* response it reads the body, and when the signal is not triggered it
\* returns the bytes of that body, with no error and no further request.
C26_RetryOnly429 ==
    [][\A p \in Procs :
         /\ (g[p].pc = "RoundTrip" /\ g'[p].pc = "backoff") =>
               g'[p].status = StatusTooManyRequests /\ g'[p].hasRA
         /\ (g[p].pc = "RoundTrip" /\ g'[p].pc = "ReadAll") =>
               ~(g'[p].status = StatusTooManyRequests /\ g'[p].hasRA)
         /\ (g[p].pc = "ReadAll" /\ g[p].fn = "fetchData" /\ ~cancelled
                /\ g'[p] # g[p]) =>
               /\ g'[p].pc = "ret" /\ g'[p].result = Nil
               /\ g'[p].out = g[p].sent
               /\ g'[p].gets = g[p].gets]_vars

\* export is in fetchData
InFetch(f) == f.fn = "export" /\ f.pc \in {"fetchData", "Wait", "RoundTrip", "backoff", "ReadAll"}

\* the error of resources, as export returns it
IsDecodeError(err) == err # Nil /\ err[1] = "retrieve resources"

\* C27: when fetchData returns an error to export, export returns in the
\* same step: the cancellation error itself if the signal is triggered,
\* "fetch data: <the error>" otherwise; no further request was sent, nothing
\* was decoded, no directory was made and no file was written or changed.
C27_FetchErrorAborts ==
    [][\A p \in Procs :
         (InFetch(g[p]) /\ g'[p].pc = "ret" /\ ~IsDecodeError(g'[p].result)) =>
            /\ IF cancelled THEN g'[p].result = Canceled
               ELSE /\ Len(g'[p].result) >= 2
                    /\ Head(g'[p].result) = "fetch data"
            /\ g[p].pc # "ReadAll" => g'[p].retAt # "resources"
            /\ g'[p].gets = g[p].gets
            /\ g'[p].mkdirs = 0 /\ g'[p].writes = 0
            /\ fsDir' = fsDir /\ files' = files]_vars

\* a request that failed in c.Do with the signal not triggered
C27_Witness ==
    \E p \in Procs :
       /\ g[p].pc = "ret" /\ g[p].fn = "export" /\ g[p].gets >= 1
       /\ g[p].mkdirs = 0 /\ g[p].writes = 0 /\ files = {}
       /\ ~cancelled
       /\ g[p].result = Wrap("fetch data", Wrap("make request",
                                 Wrap("do request", <<"transport">>)))

\* the payload export is about to decode: R2's parameter, R1's response body
ToDecode(f) == IF f.pc = "export" THEN f.data ELSE f.out

\* C28: resources returns an error and no resource for bytes that are not
\* JSON.  export, given such bytes, returns "retrieve resources: <that
\* error>" in the step that decodes them: it never reaches resourceDir, it
\* sends no further request, makes no directory and writes no file.
C28_InvalidJSON ==
    /\ [](\A p \in Procs :
            (g[p].pc = "ret" /\ g[p].fn = "resources" /\ ~g[p].data.valid) =>
               g[p].result # Nil /\ g[p].rcs = <<>>)
    /\ [][\A p \in Procs :
            /\ (g[p].fn = "export" /\ g'[p].pc = "resourceDir"
                   /\ g[p].pc \in {"export", "ReadAll"}) =>
                  ToDecode(g[p]).valid
            /\ (g[p].fn = "export" /\ g[p].pc \in {"export", "ReadAll"}
                   /\ g'[p].pc = "ret" /\ IsDecodeError(g'[p].result)) =>
                  /\ g'[p].result =
                        Wrap("retrieve resources", resources(ToDecode(g[p])).err)
                  /\ g'[p].gets = g[p].gets
                  /\ g'[p].mkdirs = 0 /\ g'[p].writes = 0
                  /\ fsDir' = fsDir /\ files' = files]_vars

\* R1's export fetched bytes that are not JSON and returned the decode error
C28_Witness ==
    \E p \in Procs :
       /\ g[p].pc = "ret" /\ g[p].fn = "export" /\ g[p].retAt = "ReadAll"
       /\ g[p].gets = 1 /\ ~g[p].sent.valid
       /\ g[p].result = Wrap("retrieve resources",
                             Wrap("unmarshal data", <<"syntax error">>))
       /\ g[p].mkdirs = 0 /\ files = {}

\* the three fields of a Resource
Tags == {"gid", "name", "resource_type"}

\* C29: resources, given an object whose "data" is an array of N objects,
\* returns no error and N resources, the k-th holding the gid, name and
\* resource_type of the k-th object; given an object whose "data" is an
\* empty array, is null or is missing, it returns no error and no resource.
C29_DecodeInOrder ==
    \A p \in Procs :
       (g[p].pc = "ret" /\ g[p].fn = "resources" /\ g[p].data.valid
           /\ g[p].data.top = "object") =>
          LET d == g[p].data
          IN  /\ d.dataKind = "array" =>
                    /\ g[p].result = Nil
                    /\ Len(g[p].rcs) = Len(d.data)
                    /\ \A k \in 1 .. Len(d.data) :
                          \A tag \in Tags \cap DOMAIN d.data[k] :
                             g[p].rcs[k][tag] = d.data[k][tag]
              /\ (d.dataKind \in {"absent", "null"}
                     \/ (d.dataKind = "array" /\ d.data = <<>>)) =>
                    g[p].result = Nil /\ g[p].rcs = <<>>

\* two objects, the second first, decoded in that order
C29_Witness ==
    /\ g[0].pc = "ret" /\ g[0].fn = "resources" /\ g[0].result = Nil
    /\ g[0].data = Payload(<<Entry(2), Entry(1)>>)
    /\ g[0].rcs = <<Resource(2), Resource(1)>>

\* C30: when export returns success from its loop, every resource of the
\* list has a complete file of its name in the directory of the files, and
\* that file decodes to the resource: same gid, name and resource_type.
C30_RoundTrip ==
    [][\A p \in Procs :
         (g[p].pc = "range" /\ g'[p].pc = "ret" /\ g'[p].result = Nil) =>
            \A k \in 1 .. Len(g[p].rcs) :
               \E y \in files :
                  /\ y.dir = StoreDir /\ y.name = g[p].rcs[k].name
                  /\ y.full
                  /\ y.content # <<>> /\ Decode(y.content[1]) = g[p].rcs[k]]_vars
(***************************************************************************)
(* File permissions.                                                       *)
(***************************************************************************)
\* C31: every file that storeResource has written has the mode 0600 after
\* the write, whether the file was created by the write or was there
\* before and was truncated.
C31_OwnerOnly ==
    /\ \A x \in files : x.perm = <<6, 0, 0>>
    /\ (mode = "storeResource" /\ st.calls > 0 /\ st.err = Nil)
          => st.perm = <<6, 0, 0>>

(***************************************************************************)
(* run with no interval.                                                   *)
(***************************************************************************)
\* C32: with no interval run starts the pipeline once, is never cut off
\* before the finish sequence, records the error of the pipeline exactly
\* when it is not nil and not the cancellation's, and once in finish it
\* returns.
C32_RunOnce ==
    /\ [](mode = "once" => (launched <= 1 /\ mainPc # "crashed"))
    /\ [][(mode = "once" /\ mainPc = "runOnce" /\ mainPc' # "runOnce")
            => /\ mainPc' = "finish"
               /\ errs' = IF g[0].result # Nil
                              /\ ~(cancelled /\ IsCanceled(g[0].result))
                           THEN <<g[0].result>> ELSE <<>>]_vars
    /\ (mode = "once" /\ mainPc = "finish") ~> (mainPc = "returned")

(***************************************************************************)
(* The interval.                                                           *)
(***************************************************************************)
\* C33: parseInterval returns 0 and no error for the empty string, an error
\* (and 0) for a string that is not a duration and for a duration below one
\* second, and the duration otherwise; run starts an export only when the
\* interval is empty (one-shot) or a duration of at least one second
\* (repeated), and returns the error otherwise.
C33_ParseInterval ==
    /\ [](piCall.called =>
            /\ interval = <<>> => (piCall.d = 0 /\ piCall.err = Nil)
            /\ (interval # <<>> /\ ~ParseDurationOk(interval))
                  => (piCall.d = 0 /\ piCall.err # Nil)
            /\ (ParseDurationOk(interval) /\ ParseDuration(interval) < Second)
                  => (piCall.d = 0 /\ piCall.err # Nil)
            /\ (ParseDurationOk(interval) /\ ParseDuration(interval) >= Second)
                  => (piCall.d = ParseDuration(interval) /\ piCall.err = Nil))
    /\ [][(mainPc = "run" /\ mainPc' # "run") =>
             IF interval = <<>>
             THEN mainPc' = "runOnce" /\ launched' = 1
             ELSE IF ParseDurationOk(interval) /\ ParseDuration(interval) >= Second
             THEN mainPc' = "select" /\ launched' = 1
             ELSE /\ mainPc' = "rejected" /\ launched' = 0
                  /\ runResult'.err # Nil]_vars
    /\ [](launched > 0 =>
            (interval = <<>>
             \/ (ParseDurationOk(interval) /\ ParseDuration(interval) >= Second)))

\* run was given an interval of 500ms and returned the error, without an
\* export
C33_Witness ==
    /\ mainPc = "rejected" /\ interval = <<"5", "0", "0", "m", "s">>
    /\ runResult.err = ErrInterval /\ launched = 0 /\ g[0].pc = "idle"

(***************************************************************************)
(* Admission by the rate limiter.                                          *)
(***************************************************************************)
\* C34: a Request with a valid URL and a live context without a deadline,
\* on a Client of any rate r >= 1 whose limiter has a token left or none,
\* is eventually admitted by limiter.Wait, unless its context is cancelled
\* first.
C34_EventuallyAdmitted ==
    (mode = "request" /\ rq.pc = "call" /\ validEndpoint(rq.url)
       /\ rq.ctx = "live" /\ ~rq.short)
    ~> (rq.pc = "Do" \/ rq.ctx # "live")

(***************************************************************************)
(* The body of a response.                                                 *)
(***************************************************************************)
\* the error says that reading the body failed
IsReadError(err) == \E k \in 1 .. Len(err) : err[k] = "read request body"

\* C35: while the caller's context is not cancelled, the read of the body
\* of a response that Request returned does not fail: fetchData goes on
\* without a read error.
C35_BodyReadable ==
    [][\A p \in Procs :
          (g[p].pc = "ReadAll" /\ g'[p].pc # "ReadAll" /\ ~cancelled)
             => ~IsReadError(g'[p].result)]_vars

(***************************************************************************)
(* The place of the files.                                                 *)
(***************************************************************************)
\* the directory {dataRoot}/{resourceType} of a data root
ResourceTypeDir(dataDir) == Path(TRUE, Abs(dataDir).comps \o <<ProjectName>>)

\* the path string lies directly in the directory da
DirectlyIn(str, da) ==
    \E x \in 1 .. Len(str) :
       /\ str = PathString(da) \o <<"/">> \o SubSeq(str, Len(str) - x + 1, Len(str))
       /\ \A k \in Len(str) - x + 1 .. Len(str) : str[k] # "/"

\* C36: every file opened by storeResource under a filename that export
\* built for a resource lies directly in {dataRoot}/{resourceType},
\* whatever the Name of the resource.
C36_InsideResourceDir ==
    (mode = "storeResource" /\ st.byExport) =>
       \A str \in st.created : DirectlyIn(str, ResourceTypeDir(st.dataDir))

\* the directory resourceDir ensures: dataDir + "/" + resource in both
\* revisions (export.go:124-131, part_004:41-42)
EnsureDir == "rc"

\* C37: when export is about to create the file of a resource, the
\* directory it creates the file in is the one resourceDir has ensured,
\* and it is there.
C37_WriteDirEnsured ==
    \A p \in Procs :
       g[p].pc = "storeResource" => (StoreDir = EnsureDir /\ fsDir[StoreDir] = "dir")

(***************************************************************************)
(* The sign of the backoff.                                                *)
(***************************************************************************)
\* C38: what retryAfter returns is above 0 for every string, and the
\* backoff of fetchData after a 429 is above 0.
C38_PositiveWait ==
    /\ raCall.called => raCall.wait > 0
    /\ \A p \in Procs : g[p].pc = "backoff" => g[p].wait > 0

(***************************************************************************)
(* Open response bodies.                                                   *)
(***************************************************************************)
\* C39: a call of fetchData holds at most one open response body at any
\* time.
C39_OneOpenBody ==
    \A p \in Procs : g[p].open <= 1

====
